---- MODULE Spec2Model ----
(***************************************************************************)
(* sqlx-tracing: the span-instrumentation layer around a sqlx pool, its    *)
(* pooled connections, borrowed connections and transactions.              *)
(*                                                                         *)
(* The driver (sqlx) and the tracing subscriber are collaborators: the     *)
(* driver's answers are inputs drawn with \E, the subscriber keeps the     *)
(* fields of every live span and receives a span when it closes.  Spans    *)
(* are always enabled (the subscriber filters nothing).                    *)
(***************************************************************************)
EXTENDS Integers, Sequences, FiniteSets, TLC

\* ------------------------------------------------------------------ bounds
MaxInflight == 2   \* futures / streams alive at once
MaxHandles  == 3   \* PoolConnection / Transaction / Connection values alive at once
MaxRows     == 2   \* rows a fetch_all returns
MaxStored   == 1   \* rows the table holds
MaxElems    == 2   \* elements a driver stream produces
PoolMax     == 2   \* the largest max_connections a driver pool is built with

\* ------------------------------------------------------------------ values
None    == <<>>
Some(x) == <<x>>
Empty   == <<>>            \* tracing::field::Empty: the key is declared, no value recorded
V(x)    == <<x>>           \* a recorded value

Backends == {"sqlite", "postgres"}
SqlTexts == {"SELECT 1", "INSERT 2", "SELECT 3"}

\* sqlx::Error variants named by the first arm of record_error's match
ClientVariants ==
  {"ColumnIndexOutOfBounds", "ColumnDecode", "ColumnNotFound", "Decode",
   "Encode", "RowNotFound", "TypeNotFound"}
\* the variants the wildcard arm catches
OtherVariants ==
  {"Configuration", "Database", "Io", "Tls", "Protocol", "AnyDriverError",
   "PoolTimedOut", "PoolClosed", "WorkerCrashed", "Migrate"}

\* the data an error value carries besides its variant
PayloadsOf(v) ==
  IF v \in {"Database", "ColumnNotFound"} THEN {"p1", "p2"} ELSE {"p1"}

\* Result<T, sqlx::Error> and Option<Result<..>> as uniform records
Ok(kind, n)  == [tag |-> "Ok",  kind |-> kind, n |-> n, payload |-> ""]
Err(v, p)    == [tag |-> "Err", kind |-> v,    n |-> 0, payload |-> p]
Pending      == [tag |-> "Pending", kind |-> "", n |-> 0, payload |-> ""]
StreamEnd    == [tag |-> "End", kind |-> "", n |-> 0, payload |-> ""]
Nothing      == [tag |-> "Nothing", kind |-> "", n |-> 0, payload |-> ""]
\* (), and Option<PoolConnection> / Option<driver connection>
Unit         == [tag |-> "Unit", kind |-> "", n |-> 0, payload |-> ""]
SomeV(kind, n) == [tag |-> "Some", kind |-> kind, n |-> n, payload |-> ""]
NoneV        == [tag |-> "None", kind |-> "", n |-> 0, payload |-> ""]
Errors       == UNION { { Err(v, p) : p \in PayloadsOf(v) } : v \in ClientVariants \cup OtherVariants }

\* err.to_string() and format!("{err:?}")
to_string(e)  == <<"display", e.kind, e.payload>>
debug_fmt(e)  == <<"debug", e.kind, e.payload>>

\* ------------------------------------------------------------------ Attributes
\* defaults that record nothing until asked to
AttributesOptIn ==
  [name |-> None, host |-> None, port |-> None, database |-> None,
   record_query_text |-> FALSE, record_error_details |-> FALSE]

\* impl Default for Attributes
AttributesDefault ==
  [name |-> None, host |-> None, port |-> None, database |-> None,
   record_query_text |-> TRUE, record_error_details |-> TRUE]

\* The connect options a driver pool is built with.  A postgres pool has a
\* host, a port and maybe a database, whose name is kept as the segments its
\* '/' characters cut it into; a sqlite pool has a file name, a path that may
\* or may not be valid UTF-8.
ConnectOptions(db) ==
  IF db = "postgres"
    THEN { [host |-> "localhost", port |-> 5432, database |-> Some(<<"postgres">>)],
           [host |-> "10.0.0.7",  port |-> 6543, database |-> Some(<<"tenants", "eu">>)],
           [host |-> "localhost", port |-> 5432, database |-> None] }
    ELSE { [filename |-> [utf8 |-> TRUE,  name |-> ":memory:"]],
           [filename |-> [utf8 |-> TRUE,  name |-> "app.db"]],
           [filename |-> [utf8 |-> FALSE, name |-> "raw-bytes"]] }

\* the connect options of the pools the tests build
UnderTest(db) ==
  IF db = "postgres"
    THEN [host |-> "localhost", port |-> 5432, database |-> Some(<<"postgres">>)]
    ELSE [filename |-> [utf8 |-> TRUE, name |-> ":memory:"]]

\* pool.connect_options().to_url_lossy(): postgres://host:port, and the
\* database as the path when there is one; url.host_str(), url.port() and
\* url.path_segments() of that URL (no path, no segments)
to_url_lossy(o) ==
  [host_str |-> Some(o.host), port |-> Some(o.port),
   path_segments |-> IF o.database = None THEN None ELSE Some(o.database[1])]

\* pool.connect_options().get_filename() and Path::to_str()
get_filename(o) == o.filename
to_str(path) == IF path.utf8 THEN Some(path.name) ELSE None

\* url.path_segments().and_then(|mut segments| segments.next().map(String::from))
first_segment(url) ==
  IF url.path_segments = None THEN None
  ELSE IF Len(url.path_segments[1]) > 0 THEN Some(Head(url.path_segments[1]))
  ELSE None

\* impl From<sqlx::Pool<DB>> for PoolBuilder<DB>
BuilderFrom(db, p) ==
  IF db = "postgres"
    THEN [AttributesDefault EXCEPT
            !.host = to_url_lossy(p.connect_options).host_str,
            !.port = to_url_lossy(p.connect_options).port,
            !.database = first_segment(to_url_lossy(p.connect_options))]
    ELSE [AttributesDefault EXCEPT !.host = to_str(get_filename(p.connect_options))]

\* prelude::Database::SYSTEM
DB_SYSTEM(db) == IF db = "postgres" THEN "postgresql" ELSE "sqlite"

\* ------------------------------------------------------------------ spans
SqlKeys ==
  {"db.name", "db.operation", "db.query.text", "db.response.affected_rows",
   "db.response.returned_rows", "db.response.status_code", "db.sql.table",
   "db.system.name", "error.type", "error.message", "error.stacktrace",
   "net.peer.name", "net.peer.port", "otel.kind", "otel.status_code",
   "otel.status_description", "peer.service"}
OpKeys ==
  {"db.name", "db.system.name", "error.type", "error.message", "error.stacktrace",
   "net.peer.name", "net.peer.port", "otel.kind", "otel.status_code",
   "otel.status_description", "peer.service"}

NoSpan == [name |-> "", fields |-> <<>>]

\* a span builder that ignores the record_query_text toggle
instrument_always_text(name, statement, attributes, db) ==
  [name |-> name,
   fields |->
     [k \in SqlKeys |->
        CASE k = "db.name"         -> attributes.database
          [] k = "db.query.text"   -> Some(statement)
          [] k = "db.system.name"  -> V(DB_SYSTEM(db))
          [] k = "net.peer.name"   -> attributes.host
          [] k = "net.peer.port"   -> attributes.port
          [] k = "otel.kind"       -> V("client")
          [] k = "peer.service"    -> attributes.name
          [] OTHER                 -> Empty]]

\* instrument!(name, statement, attributes)
instrument(name, statement, attributes, db) ==
  [name |-> name,
   fields |->
     [k \in SqlKeys |->
        CASE k = "db.name"         -> attributes.database
          [] k = "db.query.text"   -> IF attributes.record_query_text THEN Some(statement) ELSE None
          [] k = "db.system.name"  -> V(DB_SYSTEM(db))
          [] k = "net.peer.name"   -> attributes.host
          [] k = "net.peer.port"   -> attributes.port
          [] k = "otel.kind"       -> V("client")
          [] k = "peer.service"    -> attributes.name
          [] OTHER                 -> Empty]]

\* a lifecycle span builder that declares the whole SQL schema
instrument_op_with_sql_schema(name, attributes, db) ==
  [name |-> name,
   fields |->
     [k \in SqlKeys |->
        CASE k = "db.name"         -> attributes.database
          [] k = "db.system.name"  -> V(DB_SYSTEM(db))
          [] k = "net.peer.name"   -> attributes.host
          [] k = "net.peer.port"   -> attributes.port
          [] k = "otel.kind"       -> V("client")
          [] k = "peer.service"    -> attributes.name
          [] OTHER                 -> Empty]]

\* instrument_op!(name, attributes)
instrument_op(name, attributes, db) ==
  [name |-> name,
   fields |->
     [k \in OpKeys |->
        CASE k = "db.name"         -> attributes.database
          [] k = "db.system.name"  -> V(DB_SYSTEM(db))
          [] k = "net.peer.name"   -> attributes.host
          [] k = "net.peer.port"   -> attributes.port
          [] k = "otel.kind"       -> V("client")
          [] k = "peer.service"    -> attributes.name
          [] OTHER                 -> Empty]]

\* Span::record: a key the span did not declare is ignored, and so is any
\* record on the disabled span Span::current() returns outside every span
record(span, key, value) ==
  IF key \in DOMAIN span.fields
    THEN [span EXCEPT !.fields[key] = V(value)]
    ELSE span

\* record_one
record_one(span) == record(span, "db.response.returned_rows", 1)

\* a recorder that counts an absent row as a row
record_optional_always_one(span, value) ==
  record(span, "db.response.returned_rows", 1)

\* record_optional
record_optional(span, value) ==
  record(span, "db.response.returned_rows", IF value.kind = "Some" THEN 1 ELSE 0)

\* a match whose first arm forgets RowNotFound
error_type_without_row_not_found(err) ==
  IF err.kind \in {"ColumnIndexOutOfBounds", "ColumnDecode", "ColumnNotFound",
                   "Decode", "Encode", "TypeNotFound"}
    THEN "client"
    ELSE "server"

\* the match of record_error
error_type(err) ==
  IF err.kind \in {"ColumnIndexOutOfBounds", "ColumnDecode", "ColumnNotFound",
                   "Decode", "Encode", "RowNotFound", "TypeNotFound"}
    THEN "client"
    ELSE "server"

\* a recorder that writes the message and the debug form whatever the toggle says
record_error_always_detailed(span, err, record_details) ==
  LET s1 == record(span, "otel.status_code", "error")
      s2 == record(s1, "error.type", error_type(err))
      s3 == record(s2, "otel.status_description", to_string(err))
      s4 == record(s3, "error.message", to_string(err))
  IN  record(s4, "error.stacktrace", debug_fmt(err))

\* record_error(err, record_details), applied to the span that is current
record_error(span, err, record_details) ==
  LET s1 == record(span, "otel.status_code", "error")
      s2 == record(s1, "error.type", error_type(err))
  IN  IF record_details
        THEN LET msg == to_string(err)
                 s3  == record(s2, "otel.status_description", msg)
                 s4  == record(s3, "error.message", msg)
             IN  record(s4, "error.stacktrace", debug_fmt(err))
        ELSE s2

\* ------------------------------------------------------------------ the executor surface
ExecutorOps ==
  {"describe", "execute", "execute_many", "fetch", "fetch_all", "fetch_many",
   "fetch_one", "fetch_optional", "prepare", "prepare_with"}

\* What a call leaves behind: the span, the captured record_details, the
\* adapter around the driver's future or stream, and what it records on Ok.
Wrapped(span, attrs, shape, onOk) ==
  [span |-> span, record_details |-> attrs.record_error_details,
   shape |-> shape, onOk |-> onOk]

\* a plain wrapper that counts a row on success, as fetch_one's does
exec_fut_counting_row(span_name, sql, attrs, db) ==
  Wrapped(instrument(span_name, sql, attrs, db), attrs, "future", "record_one")

\* exec_fut!(span_name, sql, attrs, fut)
exec_fut(span_name, sql, attrs, db) ==
  Wrapped(instrument(span_name, sql, attrs, db), attrs, "future", "nothing")

\* a fetch_all wrapper that records one row whatever the driver returned
exec_fut_rows_recording_one(sql, attrs, db) ==
  Wrapped(instrument("sqlx.fetch_all", sql, attrs, db), attrs, "future", "record_one")

\* exec_fut_rows!(sql, attrs, fut)
exec_fut_rows(sql, attrs, db) ==
  Wrapped(instrument("sqlx.fetch_all", sql, attrs, db), attrs, "future", "len")

\* exec_fut_one!(sql, attrs, fut)
exec_fut_one(sql, attrs, db) ==
  Wrapped(instrument("sqlx.fetch_one", sql, attrs, db), attrs, "future", "record_one")

\* a fetch_optional wrapper whose span takes the name of fetch_one
exec_fut_opt_named_fetch_one(sql, attrs, db) ==
  Wrapped(instrument("sqlx.fetch_one", sql, attrs, db), attrs, "future",
          "record_optional")

\* exec_fut_opt!(sql, attrs, fut)
exec_fut_opt(sql, attrs, db) ==
  Wrapped(instrument("sqlx.fetch_optional", sql, attrs, db), attrs, "future",
          "record_optional")

\* exec_stream!(span_name, sql, attrs, stream)
exec_stream(span_name, sql, attrs, db) ==
  Wrapped(instrument(span_name, sql, attrs, db), attrs, "stream", "nothing")

\* impl Executor for &Pool
PoolExecutor(op, sql, attrs, db) ==
  CASE op = "describe"       -> exec_fut("sqlx.describe", sql, attrs, db)
    [] op = "execute"        -> exec_fut("sqlx.execute", sql, attrs, db)
    [] op = "execute_many"   -> exec_stream("sqlx.execute_many", sql, attrs, db)
    [] op = "fetch"          -> exec_stream("sqlx.fetch", sql, attrs, db)
    [] op = "fetch_all"      -> exec_fut_rows(sql, attrs, db)
    [] op = "fetch_many"     -> exec_stream("sqlx.fetch_many", sql, attrs, db)
    [] op = "fetch_one"      -> exec_fut_one(sql, attrs, db)
    [] op = "fetch_optional" -> exec_fut_opt(sql, attrs, db)
    [] op = "prepare"        -> exec_fut("sqlx.prepare", sql, attrs, db)
    [] op = "prepare_with"   -> exec_fut("sqlx.prepare_with", sql, attrs, db)

\* impl Executor for &mut PoolConnection
PoolConnectionExecutor(op, sql, attrs, db) ==
  CASE op = "describe"       -> exec_fut("sqlx.describe", sql, attrs, db)
    [] op = "execute"        -> exec_fut("sqlx.execute", sql, attrs, db)
    [] op = "execute_many"   -> exec_stream("sqlx.execute_many", sql, attrs, db)
    [] op = "fetch"          -> exec_stream("sqlx.fetch", sql, attrs, db)
    [] op = "fetch_all"      -> exec_fut_rows(sql, attrs, db)
    [] op = "fetch_many"     -> exec_stream("sqlx.fetch_many", sql, attrs, db)
    [] op = "fetch_one"      -> exec_fut_one(sql, attrs, db)
    [] op = "fetch_optional" -> exec_fut_opt(sql, attrs, db)
    [] op = "prepare"        -> exec_fut("sqlx.prepare", sql, attrs, db)
    [] op = "prepare_with"   -> exec_fut("sqlx.prepare_with", sql, attrs, db)

\* impl Executor for &mut Connection
ConnectionExecutor(op, sql, attrs, db) ==
  CASE op = "describe"       -> exec_fut("sqlx.describe", sql, attrs, db)
    [] op = "execute"        -> exec_fut("sqlx.execute", sql, attrs, db)
    [] op = "execute_many"   -> exec_stream("sqlx.execute_many", sql, attrs, db)
    [] op = "fetch"          -> exec_stream("sqlx.fetch", sql, attrs, db)
    [] op = "fetch_all"      -> exec_fut_rows(sql, attrs, db)
    [] op = "fetch_many"     -> exec_stream("sqlx.fetch_many", sql, attrs, db)
    [] op = "fetch_one"      -> exec_fut_one(sql, attrs, db)
    [] op = "fetch_optional" -> exec_fut_opt(sql, attrs, db)
    [] op = "prepare"        -> exec_fut("sqlx.prepare", sql, attrs, db)
    [] op = "prepare_with"   -> exec_fut("sqlx.prepare_with", sql, attrs, db)

\* a hand-written describe that forgets the pool's record_error_details
TransactionDescribeTerse(sql, attrs, db) ==
  Wrapped(instrument("sqlx.describe", sql, attrs, db),
          [attrs EXCEPT !.record_error_details = FALSE], "future", "nothing")

\* Transaction's describe, written out by hand: the span and record_details
\* are taken before the async block, the driver future is made inside it
TransactionDescribe(sql, attrs, db) ==
  Wrapped(instrument("sqlx.describe", sql, attrs, db), attrs, "future", "nothing")

\* impl Executor for &mut Transaction
TransactionExecutor(op, sql, attrs, db) ==
  CASE op = "describe"       -> TransactionDescribe(sql, attrs, db)
    [] op = "execute"        -> exec_fut("sqlx.execute", sql, attrs, db)
    [] op = "execute_many"   -> exec_stream("sqlx.execute_many", sql, attrs, db)
    [] op = "fetch"          -> exec_stream("sqlx.fetch", sql, attrs, db)
    [] op = "fetch_all"      -> exec_fut_rows(sql, attrs, db)
    [] op = "fetch_many"     -> exec_stream("sqlx.fetch_many", sql, attrs, db)
    [] op = "fetch_one"      -> exec_fut_one(sql, attrs, db)
    [] op = "fetch_optional" -> exec_fut_opt(sql, attrs, db)
    [] op = "prepare"        -> exec_fut("sqlx.prepare", sql, attrs, db)
    [] op = "prepare_with"   -> exec_fut("sqlx.prepare_with", sql, attrs, db)

\* the impl the compiler picks for a carrier
ExecutorOf(kind, op, sql, attrs, db) ==
  CASE kind = "Pool"           -> PoolExecutor(op, sql, attrs, db)
    [] kind = "PoolConnection" -> PoolConnectionExecutor(op, sql, attrs, db)
    [] kind = "Connection"     -> ConnectionExecutor(op, sql, attrs, db)
    [] kind = "Transaction"    -> TransactionExecutor(op, sql, attrs, db)

\* ------------------------------------------------------------------ the tracing context
\* One poll runs with a thread-local current span: the caller's (ambient)
\* span, until the operation's own span is entered.
Ctx(own, amb) == [own |-> own, ambient |-> amb, current |-> "ambient"]

\* Span::enter / the guard's drop
enter(ctx) == [ctx EXCEPT !.current = "own"]
exit(ctx)  == [ctx EXCEPT !.current = "ambient"]

\* tracing::Span::current()
Current(ctx) == IF ctx.current = "own" THEN ctx.own ELSE ctx.ambient
WithCurrent(ctx, s) ==
  IF ctx.current = "own" THEN [ctx EXCEPT !.own = s] ELSE [ctx EXCEPT !.ambient = s]

\* a recorder hooked on every result, not only on errors
inspect_any(ctx, res, record_details) ==
  WithCurrent(ctx, record_error(Current(ctx), res, record_details))

\* .inspect_err(|e| record_error(e, record_details))
inspect_err(ctx, res, record_details) ==
  IF res.tag = "Err"
    THEN WithCurrent(ctx, record_error(Current(ctx), res, record_details))
    ELSE ctx

\* a row counter hooked on every result: fetch_one counts its row even when
\* the driver found none
inspect_counting_always(ctx, res, onOk) ==
  CASE onOk = "len" ->
         WithCurrent(ctx, record(Current(ctx), "db.response.returned_rows", res.n))
    [] onOk = "record_one" -> WithCurrent(ctx, record_one(Current(ctx)))
    [] onOk = "record_optional" -> WithCurrent(ctx, record_optional(Current(ctx), res))
    [] OTHER -> ctx

\* .inspect(..) of exec_fut_rows / exec_fut_one / exec_fut_opt
inspect_ok(ctx, res, onOk) ==
  IF res.tag # "Ok" THEN ctx
  ELSE CASE onOk = "len" ->
              WithCurrent(ctx, record(Current(ctx), "db.response.returned_rows", res.n))
         [] onOk = "record_one" -> WithCurrent(ctx, record_one(Current(ctx)))
         [] onOk = "record_optional" -> WithCurrent(ctx, record_optional(Current(ctx), res))
         [] OTHER -> ctx

\* a wrapper that turns the driver's RowNotFound into an absent row
PollInstrumentedSwallowing(ctx, res, onOk, record_details) ==
  LET c1 == enter(ctx)
      c2 == IF res.tag = "Pending" THEN c1
            ELSE inspect_err(inspect_ok(c1, res, onOk), res, record_details)
  IN  [ctx |-> exit(c2), driverCtx |-> c1.current,
       out |-> IF res.tag = "Err" /\ res.kind = "RowNotFound" THEN Ok("None", 0) ELSE res]

\* a wrapper that polls the block without entering the span
PollNotEntered(ctx, res, onOk, record_details) ==
  LET c2 == IF res.tag = "Pending" THEN ctx
            ELSE inspect_err(inspect_ok(ctx, res, onOk), res, record_details)
  IN  [ctx |-> c2, driverCtx |-> ctx.current, out |-> res]

\* async move { fut.await.inspect(..).inspect_err(..) }.instrument(span), polled
\* once with the driver future answering res: Instrumented::poll enters the
\* span, polls the block, and leaves the span
PollInstrumented(ctx, res, onOk, record_details) ==
  LET c1 == enter(ctx)
      c2 == IF res.tag = "Pending" THEN c1
            ELSE inspect_err(inspect_ok(c1, res, onOk), res, record_details)
  IN  [ctx |-> exit(c2), driverCtx |-> c1.current, out |-> res]

\* stream.inspect(move |_| { let _enter = span.enter(); }).inspect_err(..),
\* polled once with the driver stream answering res
PollStream(ctx, res, record_details) ==
  LET c1 == IF res.tag \in {"Ok", "Err"} THEN exit(enter(ctx)) ELSE ctx
      c2 == IF res.tag \in {"Ok", "Err"} THEN inspect_err(c1, res, record_details) ELSE c1
  IN  [ctx |-> c2, driverCtx |-> ctx.current, out |-> res]

\* ------------------------------------------------------------------ state
VARIABLES
  backend,    \* DB: the driver backend the pool is generic over
  builder,    \* PoolBuilder.attributes, None once build() has consumed the builder
  arcs,       \* the Arc<Attributes> allocations, by address
  pool,       \* Pool.attributes (an address into arcs), 0 before build()
  inner,      \* the driver pool: its idle connections, its closed flag
  table,      \* the database table: committed rows, and rows written in open transactions
  handles,    \* the PoolConnection / Transaction / Connection values alive
  ops,        \* the futures and streams alive, each with its span
  ambient,    \* the span current in the caller's task
  created,    \* how many spans the last step created
  acted,      \* the operation the last step belongs to
  driverOut,  \* what the driver answered in the last step
  driverCtx,  \* the span that was current while the driver was polled in the last step
  delivered,  \* what the last step handed to the caller
  closed      \* the span the last step closed

vars == <<backend, builder, arcs, pool, inner, table, handles, ops, ambient, created,
          acted, driverOut, driverCtx, delivered, closed>>

Slots     == 1..MaxInflight
HandleIds == 1..MaxHandles
ConnIds   == 1..PoolMax

\* spent: a Connection<'c> or Transaction<'c> that has been passed as an
\* executor: the impls are for &'c mut Connection<'c, DB> and
\* &'c mut Transaction<'c, DB>, so that one borrow lasts as long as the value
NoHandle == [kind |-> "", attributes |-> 0, inner |-> 0, parent |-> 0, spent |-> FALSE]
Idle ==
  [op |-> "", carrier |-> 0, kind |-> "", sql |-> "", span |-> NoSpan,
   record_details |-> FALSE, shape |-> "", onOk |-> "", phase |-> "",
   produced |-> 0, conn |-> 0]
Act(op, kind, event, slot) == [op |-> op, kind |-> kind, event |-> event, slot |-> slot]

\* the span of the caller, with the one key it declares
CallerSpan  == [name |-> "app.request", fields |-> [k \in {"otel.status_code"} |-> Empty]]

Min(S) == CHOOSE x \in S : \A y \in S : x <= y
FreeSlots   == { i \in Slots : ops[i].op = "" }
FreeHandles == { h \in HandleIds : handles[h].kind = "" }
Built       == pool # 0

\* the caller holds no future and no stream
Sequential == \A i \in Slots : ops[i].op = ""

\* the Connection or Transaction g has been passed as an executor and the
\* future or stream of that call is gone: its one &'c mut borrow lasts as long
\* as g does, so nothing can name g again, and the region 'c, which is also
\* the borrow g holds of the value it came from, has ended with the future
Abandoned(g) ==
  /\ handles[g].spent
  /\ \A i \in Slots : ~(ops[i].op # "" /\ ops[i].carrier = g)

\* a &mut borrow of handle h is alive: a value derived from it that can still
\* be used, or a future on it
Borrowed(h) ==
  \/ \E g \in HandleIds :
       handles[g].kind # "" /\ handles[g].parent = h /\ ~Abandoned(g)
  \/ \E i \in Slots : ops[i].op # "" /\ ops[i].carrier = h

\* the steps that touch no future report nothing
Quiet ==
  /\ created' = 0
  /\ driverOut' = Nothing
  /\ driverCtx' = "none"
  /\ delivered' = Nothing
  /\ closed' = NoSpan

\* ------------------------------------------------------------------ the database behind the driver
\* One table.  rows counts its committed rows; pending[c] counts the rows
\* written on connection c inside the transaction open on c (c \in open), and
\* saved[c] holds, for each transaction begun inside that one and not ended
\* (the driver makes it a savepoint), the value of pending[c] at its beginning.
EmptyTable == [rows |-> 0, open |-> {}, pending |-> [c \in ConnIds |-> 0],
               saved |-> [c \in ConnIds |-> <<>>]]

\* the rows a query on connection c sees: the committed ones and its own
Visible(t, c) == t.rows + (IF c \in t.open THEN t.pending[c] ELSE 0)

RECURSIVE Sum(_, _)
Sum(f, S) == IF S = {} THEN 0 ELSE LET x == CHOOSE y \in S : TRUE IN f[x] + Sum(f, S \ {x})

\* the table holds at most MaxStored rows, committed or not
Full(t) == t.rows + Sum(t.pending, ConnIds) >= MaxStored

\* the driver's begin, an INSERT, and the driver's commit and rollback on
\* connection c. They act on the innermost transaction open on c: begin inside
\* a transaction sets a savepoint, commit releases the last savepoint or, with
\* none left, commits; rollback goes back to the last savepoint or, with none
\* left, rolls the transaction back.
SqlBegin(t, c)    == IF c \in t.open
                       THEN [t EXCEPT !.saved[c] = Append(@, t.pending[c])]
                       ELSE [t EXCEPT !.open = @ \cup {c}, !.pending[c] = 0]
SqlInsert(t, c)   == IF c \in t.open THEN [t EXCEPT !.pending[c] = @ + 1]
                                     ELSE [t EXCEPT !.rows = @ + 1]
SqlCommit(t, c)   == IF c \in t.open /\ t.saved[c] # <<>>
                       THEN [t EXCEPT !.saved[c] = SubSeq(@, 1, Len(@) - 1)]
                       ELSE [t EXCEPT !.rows = @ + (IF c \in t.open THEN t.pending[c] ELSE 0),
                                      !.open = @ \ {c}, !.pending[c] = 0]
SqlRollback(t, c) == IF c \in t.open /\ t.saved[c] # <<>>
                       THEN [t EXCEPT !.pending[c] = t.saved[c][Len(t.saved[c])],
                                      !.saved[c] = SubSeq(@, 1, Len(@) - 1)]
                       ELSE [t EXCEPT !.open = @ \ {c}, !.pending[c] = 0]

\* a driver pool of max_connections m built with the connect options o
DriverPool(m, o) ==
  [idle |-> 1..m, closed |-> FALSE, max_connections |-> m, connect_options |-> o]

\* the driver pool's close: the pool is marked closed when close starts, and
\* the future resolves once every connection is back
inner_close(p) == IF p.idle = 1..p.max_connections THEN {Pending, Unit} ELSE {Pending}

\* the driver pool's try_acquire: an idle connection of an open pool, or none
inner_try_acquire(p) ==
  IF ~p.closed /\ p.idle # {}
    THEN SomeV("DriverConnection", Min(p.idle)) ELSE NoneV

Init ==
  /\ backend \in Backends
  /\ \E m \in 1..PoolMax, o \in ConnectOptions(backend) : inner = DriverPool(m, o)
  /\ builder = Some(BuilderFrom(backend, inner))
  /\ arcs = <<>>
  /\ pool = 0
  /\ table = EmptyTable
  /\ handles = [h \in HandleIds |-> NoHandle]
  /\ ops = [i \in Slots |-> Idle]
  /\ ambient = CallerSpan
  /\ created = 0
  /\ acted = Act("", "", "", 0)
  /\ driverOut = Nothing
  /\ driverCtx = "none"
  /\ delivered = Nothing
  /\ closed = NoSpan

\* ------------------------------------------------------------------ PoolBuilder
\* the values the identifying setters are called with
SetterInputs ==
  [name |-> {"orders-svc"}, database |-> {"orders"}, host |-> {"db.internal"}, port |-> {6432}]

\* PoolBuilder::with_name
with_name(b, name) == [b EXCEPT !.name = Some(name)]

\* PoolBuilder::with_database
with_database(b, database) == [b EXCEPT !.database = Some(database)]

\* a with_host that keeps a host the builder detected by itself
with_host_if_absent(b, host) == IF b.host = None THEN [b EXCEPT !.host = Some(host)] ELSE b

\* PoolBuilder::with_host
with_host(b, host) == [b EXCEPT !.host = Some(host)]

\* PoolBuilder::with_port
with_port(b, port) == [b EXCEPT !.port = Some(port)]

\* a builder method: consumes the builder and returns the changed one
Setter(op, changed) ==
  /\ builder # None
  /\ builder' = Some(changed)
  /\ acted' = [op |-> op, kind |-> "PoolBuilder", event |-> "call", slot |-> 0]
  /\ created' = 0
  /\ driverOut' = [tag |-> "Nothing", kind |-> "", n |-> 0, payload |-> ""]
  /\ driverCtx' = "none"
  /\ delivered' = [tag |-> "Nothing", kind |-> "", n |-> 0, payload |-> ""]
  /\ closed' = [name |-> "", fields |-> <<>>]
  /\ UNCHANGED <<backend, arcs, pool, inner, handles, ops, ambient, table>>

WithName     == \E name \in SetterInputs.name : Setter("with_name", with_name(builder[1], name))
WithDatabase == \E database \in SetterInputs.database :
                  Setter("with_database", with_database(builder[1], database))
WithHost     == \E host \in SetterInputs.host : Setter("with_host", with_host(builder[1], host))
WithPort     == \E port \in SetterInputs.port : Setter("with_port", with_port(builder[1], port))

\* PoolBuilder::with_query_text_recording
with_query_text_recording(b, enabled) == [b EXCEPT !.record_query_text = enabled]

\* PoolBuilder::with_error_detail_recording
with_error_detail_recording(b, enabled) == [b EXCEPT !.record_error_details = enabled]

WithQueryTextRecording ==
  /\ builder # None
  /\ \E enabled \in BOOLEAN :
       builder' = Some(with_query_text_recording(builder[1], enabled))
  /\ acted' = Act("with_query_text_recording", "PoolBuilder", "call", 0)
  /\ Quiet
  /\ UNCHANGED <<backend, arcs, pool, inner, handles, ops, ambient, table>>

WithErrorDetailRecording ==
  /\ builder # None
  /\ \E enabled \in BOOLEAN :
       builder' = Some(with_error_detail_recording(builder[1], enabled))
  /\ acted' = Act("with_error_detail_recording", "PoolBuilder", "call", 0)
  /\ Quiet
  /\ UNCHANGED <<backend, arcs, pool, inner, handles, ops, ambient, table>>

\* a clone that copies the Attributes into an allocation of its own
ArcCloneDeep(heap, address) ==
  [heap |-> Append(heap, heap[address]), address |-> Len(heap) + 1]

\* Arc::clone: another reference to the same allocation; the heap is as it was
ArcClone(heap, address) == [heap |-> heap, address |-> address]

\* PoolBuilder::build
Build ==
  /\ builder # None
  /\ arcs' = Append(arcs, builder[1])   \* Arc::new
  /\ pool' = Len(arcs')
  /\ builder' = None
  /\ acted' = Act("build", "PoolBuilder", "call", 0)
  /\ Quiet
  /\ UNCHANGED <<backend, inner, handles, ops, ambient, table>>

\* ------------------------------------------------------------------ executor calls
CarrierKind(c) == IF c = 0 THEN "Pool" ELSE handles[c].kind
CarrierAttributes(c) == IF c = 0 THEN pool ELSE handles[c].attributes
Executors == {"Pool", "PoolConnection", "Connection", "Transaction"}

\* handle h can be passed as an executor now. &mut PoolConnection is borrowed
\* for the call alone. &'c mut Connection<'c, DB> is borrowed for as long as the
\* Connection lives, so a Connection serves one call. &'c mut Transaction<'c, DB>
\* borrows the Transaction for as long as it lives too: it serves one call, and
\* only as a value that is never dropped in place (ManuallyDrop, Box::leak),
\* which from then on can be neither committed, rolled back, lent nor dropped.
\* The value it was begun on is free again once the future of that call is
\* gone (Abandoned).
Lendable(h) ==
  /\ handles[h].kind \in {"PoolConnection", "Connection", "Transaction"}
  /\ ~Borrowed(h)
  /\ ~handles[h].spent

\* a call of one of the ten Executor methods on carrier c: the span is made
\* and the driver's future or stream is built, nothing is polled yet
ExecutorCall(c, op, sql) ==
  /\ Built
  /\ FreeSlots # {}
  /\ c = 0 \/ (c \in HandleIds /\ Lendable(c))
  /\ LET attrs == arcs[CarrierAttributes(c)]
         w == ExecutorOf(CarrierKind(c), op, sql, attrs, backend)
         i == Min(FreeSlots)
     IN  /\ ops' = [ops EXCEPT ![i] =
                      [op |-> op, carrier |-> c, kind |-> CarrierKind(c), sql |-> sql,
                       span |-> w.span, record_details |-> w.record_details,
                       shape |-> w.shape, onOk |-> w.onOk, phase |-> "running",
                       produced |-> 0, conn |-> 0]]
         /\ acted' = Act(op, CarrierKind(c), "call", i)
  /\ handles' = IF c # 0 /\ handles[c].kind \in {"Connection", "Transaction"}
                  THEN [handles EXCEPT ![c].spent = TRUE] ELSE handles
  /\ created' = 1
  /\ driverOut' = Nothing
  /\ driverCtx' = "none"
  /\ delivered' = Nothing
  /\ closed' = NoSpan
  /\ UNCHANGED <<backend, builder, arcs, pool, inner, ambient, table>>

Carriers == {0} \cup HandleIds

Describe      == \E c \in Carriers, sql \in SqlTexts : ExecutorCall(c, "describe", sql)
Execute       == \E c \in Carriers, sql \in SqlTexts : ExecutorCall(c, "execute", sql)
ExecuteMany   == \E c \in Carriers, sql \in SqlTexts : ExecutorCall(c, "execute_many", sql)
Fetch         == \E c \in Carriers, sql \in SqlTexts : ExecutorCall(c, "fetch", sql)
FetchAll      == \E c \in Carriers, sql \in SqlTexts : ExecutorCall(c, "fetch_all", sql)
FetchMany     == \E c \in Carriers, sql \in SqlTexts : ExecutorCall(c, "fetch_many", sql)
FetchOne      == \E c \in Carriers, sql \in SqlTexts : ExecutorCall(c, "fetch_one", sql)
FetchOptional == \E c \in Carriers, sql \in SqlTexts : ExecutorCall(c, "fetch_optional", sql)
Prepare       == \E c \in Carriers, sql \in SqlTexts : ExecutorCall(c, "prepare", sql)
PrepareWith   == \E c \in Carriers, sql \in SqlTexts : ExecutorCall(c, "prepare_with", sql)

\* ------------------------------------------------------------------ the driver's answers
\* the success values a driver call of each method can produce
DriverOk(op) ==
  CASE op = "describe"       -> { Ok("Describe", 0) }
    [] op = "execute"        -> { Ok("QueryResult", 1) }
    [] op = "execute_many"   -> { Ok("QueryResult", 1) }
    [] op = "fetch"          -> { Ok("Row", 1) }
    [] op = "fetch_all"      -> { Ok("Rows", n) : n \in 0..MaxRows }
    [] op = "fetch_many"     -> { Ok("QueryResult", 1), Ok("Row", 1) }
    [] op = "fetch_one"      -> { Ok("Row", 1) }
    [] op = "fetch_optional" -> { Ok("Some", 1), Ok("None", 0) }
    [] op = "prepare"        -> { Ok("Statement", 0) }
    [] op = "prepare_with"   -> { Ok("Statement", 0) }
    [] op = "ping"           -> { Ok("Unit", 0) }
    [] op = "commit"         -> { Ok("Unit", 0) }
    [] op = "rollback"       -> { Ok("Unit", 0) }

\* the errors the driver answers with along a run: a client one, a server one
\* with two different payloads; PoolClosed and PoolTimedOut come from the pool
RunErrors == { Err("RowNotFound", "p1"), Err("Database", "p1"), Err("Database", "p2") }
ServerErrors == { e \in RunErrors : e.kind \in OtherVariants }

\* the connection the driver call behind o runs on: the one checked out of the
\* pool for the call, or the one the PoolConnection / Transaction / Connection holds
DataConn(o, checkedOut) == IF o.carrier = 0 THEN checkedOut ELSE handles[o.carrier].inner

\* the statements whose effect on the table is followed: execute of the INSERT
\* writes one row, fetch_all of the SELECT reads the rows its connection sees
Writes(o) == o.op = "execute" /\ o.sql = "INSERT 2"
Reads(o)  == o.op = "fetch_all" /\ o.sql = "SELECT 1"

\* the success values of the driver call behind o when it runs on connection c
Answers(o, c) ==
  IF Reads(o) THEN { Ok("Rows", Visible(table, c)) }
  ELSE IF Writes(o) /\ Full(table) THEN {}
  ELSE DriverOk(o.op)

\* One poll of the driver future or stream behind o: the answer and the pooled
\* connection the driver call holds afterwards.  A call on the driver pool
\* first checks a connection out and waits while none is idle.
DriverPoll(o) ==
  IF o.carrier = 0 /\ o.conn = 0
    THEN IF inner.closed
           THEN { [res |-> Err("PoolClosed", "p1"), conn |-> 0] }
         ELSE IF inner.idle = {}
           THEN { [res |-> r, conn |-> 0] : r \in {Pending, Err("PoolTimedOut", "p1")} }
         ELSE { [res |-> r, conn |-> Min(inner.idle)] :
                  r \in {Pending} \cup Answers(o, Min(inner.idle)) \cup RunErrors }
    ELSE { [res |-> r, conn |-> o.conn] :
             r \in {Pending} \cup Answers(o, DataConn(o, o.conn)) \cup RunErrors }

\* the idle set once the driver call of o holds connection c / gives it back
CheckedOut(c) == [inner EXCEPT !.idle = @ \ {c}]
Returned(c)   == [inner EXCEPT !.idle = IF c = 0 THEN @ ELSE @ \cup {c}]

\* ------------------------------------------------------------------ polling
\* the caller polls the BoxFuture an executor call returned
PollFuture ==
  \E i \in Slots :
    /\ ops[i].shape = "future"
    /\ ops[i].phase = "running"
    /\ \E a \in DriverPoll(ops[i]) :
         LET o == ops[i]
             p == PollInstrumented(Ctx(o.span, ambient), a.res, o.onOk, o.record_details)
         IN  /\ driverOut' = a.res
             /\ driverCtx' = p.driverCtx
             /\ delivered' = p.out
             /\ ambient' = p.ctx.ambient
             /\ acted' = Act(o.op, o.kind, "poll", i)
             /\ closed' = NoSpan
             /\ IF a.res.tag = "Pending"
                  THEN /\ ops' = [ops EXCEPT ![i].span = p.ctx.own, ![i].conn = a.conn]
                       /\ inner' = CheckedOut(a.conn)
                  ELSE \* Ready: the driver future is finished and lets go of its
                       \* connection; the box and its span live on until the
                       \* caller drops the box
                       /\ ops' = [ops EXCEPT ![i].span = p.ctx.own, ![i].phase = "done",
                                             ![i].conn = 0]
                       /\ inner' = IF o.carrier = 0 THEN Returned(a.conn) ELSE inner
             /\ table' = IF a.res.tag = "Ok" /\ Writes(o)
                            THEN SqlInsert(table, DataConn(o, a.conn)) ELSE table
    /\ created' = 0
    /\ UNCHANGED <<backend, builder, arcs, pool, handles>>

\* the caller polls the BoxStream for its next element
PollNext ==
  \E i \in Slots :
    /\ ops[i].shape = "stream"
    /\ ops[i].phase = "running"
    /\ \E a \in DriverPoll(ops[i]) \cup { [res |-> StreamEnd, conn |-> ops[i].conn] } :
         LET o == ops[i]
             p == PollStream(Ctx(o.span, ambient), a.res, o.record_details)
             item == a.res.tag \in {"Ok", "Err"}
         IN  /\ item => o.produced < MaxElems
             /\ driverOut' = a.res
             /\ driverCtx' = p.driverCtx
             /\ delivered' = p.out
             /\ ambient' = p.ctx.ambient
             /\ acted' = Act(o.op, o.kind, "poll", i)
             /\ closed' = NoSpan
             /\ IF a.res.tag = "End"
                  THEN /\ ops' = [ops EXCEPT ![i].span = p.ctx.own, ![i].phase = "done",
                                             ![i].conn = 0]
                       /\ inner' = IF o.carrier = 0 THEN Returned(a.conn) ELSE inner
                  ELSE /\ ops' = [ops EXCEPT ![i].span = p.ctx.own, ![i].conn = a.conn,
                                             ![i].produced = IF item THEN @ + 1 ELSE @]
                       /\ inner' = IF o.carrier = 0 THEN CheckedOut(a.conn) ELSE inner
    /\ created' = 0
    /\ UNCHANGED <<backend, builder, arcs, pool, handles, table>>

\* a drop that marks the abandoned operation's span as failed
DropFutureMarkingSpan ==
  \E i \in Slots :
    /\ ops[i].op # ""
    /\ acted' = Act(ops[i].op, ops[i].kind, "drop", i)
    /\ closed' = record(ops[i].span, "otel.status_code", "error")
    /\ ops' = [ops EXCEPT ![i] = Idle]
    /\ inner' = Returned(ops[i].conn)
    /\ table' = IF ops[i].shape = "plain"
                   THEN SqlRollback(table, DataConn(ops[i], ops[i].conn)) ELSE table
    /\ created' = 0
    /\ driverOut' = Nothing
    /\ driverCtx' = "none"
    /\ delivered' = Nothing
    /\ UNCHANGED <<backend, builder, arcs, pool, handles, ambient>>

\* the caller drops a future or stream: before its first poll, between two
\* polls (cancellation), or after it has returned Ready or its last element;
\* the Instrumented future goes with the box and its span closes here
DropFuture ==
  \E i \in Slots :
    /\ ops[i].op # ""
    /\ acted' = Act(ops[i].op, ops[i].kind, "drop", i)
    /\ closed' = ops[i].span
    /\ ops' = [ops EXCEPT ![i] = Idle]
    /\ inner' = Returned(ops[i].conn)
    /\ table' = IF ops[i].shape = "plain"
                   THEN SqlRollback(table, DataConn(ops[i], ops[i].conn)) ELSE table
    /\ created' = 0
    /\ driverOut' = Nothing
    /\ driverCtx' = "none"
    /\ delivered' = Nothing
    /\ UNCHANGED <<backend, builder, arcs, pool, handles, ambient>>

\* ------------------------------------------------------------------ lifecycle operations

\* Pool::begin
Pool_begin(attrs, db) ==
  Wrapped(instrument_op("sqlx.transaction.begin", attrs, db), attrs, "async_fn",
          "Transaction")

\* Pool::acquire
Pool_acquire(attrs, db) ==
  Wrapped(instrument_op("sqlx.pool.acquire", attrs, db), attrs, "async_fn",
          "PoolConnection")

\* Pool::close: no record_details is read and no error is inspected
Pool_close(attrs, db) ==
  [span |-> instrument_op("sqlx.pool.close", attrs, db), record_details |-> FALSE,
   shape |-> "async_fn", onOk |-> "nothing"]

\* PoolConnection::ping
PoolConnection_ping(attrs, db) ==
  Wrapped(instrument_op("sqlx.connection.ping", attrs, db), attrs, "async_fn", "nothing")

\* PoolConnection::begin
PoolConnection_begin(attrs, db) ==
  Wrapped(instrument_op("sqlx.transaction.begin", attrs, db), attrs, "async_fn",
          "Transaction")

LifecycleOf(op, attrs, db) ==
  CASE op = "acquire"    -> Pool_acquire(attrs, db)
    [] op = "begin"      -> Pool_begin(attrs, db)
    [] op = "close"      -> Pool_close(attrs, db)
    [] op = "ping"       -> PoolConnection_ping(attrs, db)
    [] op = "conn_begin" -> PoolConnection_begin(attrs, db)

\* calling an async fn runs none of its body: no span exists before the first poll
AsyncCall(c, op, kind) ==
  /\ Built
  /\ FreeSlots # {}
  /\ LET i == Min(FreeSlots)
     IN  /\ ops' = [ops EXCEPT ![i] =
                      [Idle EXCEPT !.op = op, !.carrier = c, !.kind = kind,
                                   !.shape = "async_fn", !.phase = "new"]]
         /\ acted' = Act(op, kind, "call", i)
  /\ Quiet
  /\ UNCHANGED <<backend, builder, arcs, pool, inner, handles, ambient, table>>

PoolAcquire == AsyncCall(0, "acquire", "Pool")
PoolBegin   == AsyncCall(0, "begin", "Pool")
PoolClose   == AsyncCall(0, "close", "Pool")

Ping ==
  \E c \in HandleIds :
    /\ handles[c].kind = "PoolConnection" /\ ~Borrowed(c)
    /\ AsyncCall(c, "ping", "PoolConnection")

ConnBegin ==
  \E c \in HandleIds :
    /\ handles[c].kind = "PoolConnection" /\ ~Borrowed(c)
    /\ AsyncCall(c, "conn_begin", "PoolConnection")

\* what the driver's acquire / begin / ping / close answer to one poll
DriverLifecycle(o) ==
  CASE o.op \in {"acquire", "begin"} ->
         IF inner.closed THEN { Err("PoolClosed", "p1") }
         ELSE IF inner.idle = {} THEN { Pending, Err("PoolTimedOut", "p1") }
         ELSE {Pending} \cup ServerErrors \cup
              (IF FreeHandles = {} THEN {}
               ELSE { Ok(IF o.op = "acquire" THEN "DriverConnection"
                                             ELSE "DriverTransaction", Min(inner.idle)) })
    [] o.op = "conn_begin" ->
         {Pending} \cup ServerErrors \cup
         (IF FreeHandles = {} THEN {}
          ELSE { Ok("DriverTransaction", handles[o.carrier].inner) })
    [] o.op = "ping" -> {Pending, Ok("Unit", 0)} \cup ServerErrors
    [] o.op = "close" -> inner_close(inner)

\* .map(|inner| PoolConnection { attributes: self.attributes.clone(), inner }) and
\* .map(|inner| Transaction { inner, attributes: self.attributes.clone() }): the
\* value handed to the caller, and the value it names
MapHandle(res, onOk, h) == IF res.tag = "Ok" /\ onOk # "nothing" THEN Ok(onOk, h) ELSE res
NewHandle(res, onOk, c, attributes) ==
  [kind |-> onOk, attributes |-> attributes, inner |-> res.n, parent |-> c,
   spent |-> FALSE]

\* the caller polls the future of acquire / begin / ping / close; the first poll
\* runs the body up to its await: attributes are read and the span is made
PollAsyncFn ==
  \E i \in Slots :
    /\ ops[i].shape = "async_fn"
    /\ LET o == ops[i]
           w == LifecycleOf(o.op, arcs[CarrierAttributes(o.carrier)], backend)
           first == o.phase = "new"
           span0 == IF first THEN w.span ELSE o.span
           inner1 == IF o.op = "close" THEN [inner EXCEPT !.closed = TRUE] ELSE inner
       IN  \E res \in DriverLifecycle(o) :
             LET p == PollInstrumented(Ctx(span0, ambient), res, "nothing", w.record_details)
                 made == res.tag = "Ok" /\ w.onOk # "nothing"
                 h == IF made THEN Min(FreeHandles) ELSE 0
                 cl == ArcClone(arcs, CarrierAttributes(o.carrier))
             IN  /\ created' = IF first THEN 1 ELSE 0
                 /\ driverOut' = res
                 /\ driverCtx' = p.driverCtx
                 /\ delivered' = MapHandle(p.out, w.onOk, h)
                 /\ ambient' = p.ctx.ambient
                 /\ acted' = Act(o.op, o.kind, "poll", i)
                 /\ handles' = IF made
                                 THEN [handles EXCEPT ![h] =
                                         NewHandle(res, w.onOk, o.carrier, cl.address)]
                                 ELSE handles
                 /\ arcs' = IF made THEN cl.heap ELSE arcs
                 /\ inner' = IF made /\ o.carrier = 0 THEN CheckedOut(res.n) ELSE inner1
                 /\ table' = IF made /\ w.onOk = "Transaction"
                                THEN SqlBegin(table, res.n) ELSE table
                 /\ IF res.tag = "Pending"
                      THEN /\ ops' = [ops EXCEPT ![i].span = p.ctx.own,
                                                 ![i].record_details = w.record_details,
                                                 ![i].phase = "running"]
                           /\ closed' = NoSpan
                      ELSE /\ ops' = [ops EXCEPT ![i] = Idle]
                           /\ closed' = p.ctx.own
    /\ UNCHANGED <<backend, builder, pool>>

\* a try_acquire that lets the driver's connection go and reports none
MapOptionDropping(got, h) == NoneV

\* self.inner.try_acquire().map(|inner| PoolConnection { .. })
MapOption(got, h) == IF got.tag = "Some" THEN SomeV("PoolConnection", h) ELSE NoneV

\* Pool::try_acquire: the span is made, entered, and dropped on return
TryAcquire ==
  /\ Built
  /\ LET attrs == arcs[pool]
         span == instrument_op("sqlx.pool.acquire", attrs, backend)
         c1 == enter(Ctx(span, ambient))
         got == inner_try_acquire(inner)
         made == got.tag = "Some"
         cl == ArcClone(arcs, pool)
     IN  /\ made => FreeHandles # {}
         /\ created' = 1
         /\ driverOut' = got
         /\ driverCtx' = c1.current
         /\ delivered' = MapOption(got, IF made THEN Min(FreeHandles) ELSE 0)
         /\ handles' = IF made
                         THEN [handles EXCEPT ![Min(FreeHandles)] =
                                 [kind |-> "PoolConnection", attributes |-> cl.address,
                                  inner |-> got.n, parent |-> 0, spent |-> FALSE]]
                         ELSE handles
         /\ arcs' = IF made THEN cl.heap ELSE arcs
         /\ inner' = IF made THEN CheckedOut(got.n) ELSE inner
         /\ closed' = exit(c1).own
         /\ ambient' = exit(c1).ambient
  /\ acted' = Act("try_acquire", "Pool", "call", 0)
  /\ UNCHANGED <<backend, builder, pool, ops, table>>

\* an executor() that opens a span of its own for the borrow
TxExecutorInstrumented ==
  \E t \in HandleIds :
    /\ handles[t].kind = "Transaction" /\ ~Borrowed(t) /\ ~handles[t].spent
    /\ FreeHandles # {}
    /\ LET cl == ArcClone(arcs, handles[t].attributes)
       IN  /\ handles' = [handles EXCEPT ![Min(FreeHandles)] =
                            [kind |-> "Connection", attributes |-> cl.address,
                             inner |-> handles[t].inner, parent |-> t, spent |-> FALSE]]
           /\ arcs' = cl.heap
    /\ acted' = Act("executor", "Transaction", "call", 0)
    /\ created' = 1
    /\ closed' = instrument_op("sqlx.transaction.executor", arcs[handles[t].attributes], backend)
    /\ driverOut' = Nothing /\ driverCtx' = "none" /\ delivered' = Nothing
    /\ UNCHANGED <<backend, builder, pool, inner, ops, ambient, table>>

\* Transaction::executor
TxExecutor ==
  \E t \in HandleIds :
    /\ handles[t].kind = "Transaction" /\ ~Borrowed(t) /\ ~handles[t].spent
    /\ FreeHandles # {}
    /\ LET cl == ArcClone(arcs, handles[t].attributes)
       IN  /\ handles' = [handles EXCEPT ![Min(FreeHandles)] =
                            [kind |-> "Connection", attributes |-> cl.address,
                             inner |-> handles[t].inner, parent |-> t, spent |-> FALSE]]
           /\ arcs' = cl.heap
    /\ acted' = Act("executor", "Transaction", "call", 0)
    /\ Quiet
    /\ UNCHANGED <<backend, builder, pool, inner, ops, ambient, table>>

\* a future that does not take the connection along: nothing returns it
MovedConnLeaked(t) == 0

\* commit(self) / rollback(self): the Transaction moves into the future, and a
\* top-level one takes its pooled connection along (a transaction begun on a
\* PoolConnection borrows that connection, which stays with the PoolConnection)
MovedConn(t) == IF handles[t].parent = 0 THEN handles[t].inner ELSE 0

\* Transaction::commit / Transaction::rollback: the transaction moves into the
\* future, which awaits the driver's commit / rollback and nothing else
Finish(t, op) ==
  /\ handles[t].kind = "Transaction" /\ ~Borrowed(t) /\ ~handles[t].spent
  /\ FreeSlots # {}
  /\ LET i == Min(FreeSlots)
     IN  /\ ops' = [ops EXCEPT ![i] =
                      [Idle EXCEPT !.op = op, !.carrier = handles[t].parent,
                                   !.kind = "Transaction", !.shape = "plain",
                                   !.phase = "new",
                                   !.conn = MovedConn(t)]]
         /\ acted' = Act(op, "Transaction", "call", i)
  /\ handles' = [handles EXCEPT ![t] = NoHandle]
  /\ Quiet
  /\ UNCHANGED <<backend, builder, arcs, pool, inner, ambient, table>>

Commit   == \E t \in HandleIds : Finish(t, "commit")
Rollback == \E t \in HandleIds : Finish(t, "rollback")

\* the connection the transaction moved into the future o runs on
TxConn(o) == IF o.carrier = 0 THEN o.conn ELSE handles[o.carrier].inner

\* a commit that sends ROLLBACK
Transaction_commit_rolling_back(t, c) == SqlRollback(t, c)

\* Transaction::commit: self.inner.commit()
Transaction_commit(t, c) == SqlCommit(t, c)

\* a rollback that sends COMMIT
Transaction_rollback_committing(t, c) == SqlCommit(t, c)

\* Transaction::rollback: self.inner.rollback(); also what the driver does with
\* a transaction that fails to commit or is dropped while still open
Transaction_rollback(t, c) == SqlRollback(t, c)

\* a proxy that hands the driver's error to the recorder on its way out
ProxyRecordingError(ctx, res) ==
  [ctx |-> inspect_err(ctx, res, TRUE), out |-> res]

\* self.inner.commit().await / self.inner.rollback().await: the driver's answer
\* is the method's answer, and no span is touched
Proxy(ctx, res) == [ctx |-> ctx, out |-> res]

\* the caller polls the future of commit / rollback
PollPlain ==
  \E i \in Slots :
    /\ ops[i].shape = "plain"
    /\ \E res \in {Pending} \cup DriverOk(ops[i].op) \cup ServerErrors :
         /\ driverOut' = res
         /\ driverCtx' = Ctx(NoSpan, ambient).current
         /\ delivered' = Proxy(Ctx(NoSpan, ambient), res).out
         /\ ambient' = Proxy(Ctx(NoSpan, ambient), res).ctx.ambient
         /\ acted' = Act(ops[i].op, ops[i].kind, "poll", i)
         /\ IF res.tag = "Pending"
              THEN /\ ops' = [ops EXCEPT ![i].phase = "running"]
                   /\ inner' = inner
              ELSE /\ ops' = [ops EXCEPT ![i] = Idle]
                   /\ inner' = Returned(ops[i].conn)
         /\ table' = IF res.tag = "Pending" THEN table
                      ELSE IF res.tag = "Ok" /\ ops[i].op = "commit"
                        THEN Transaction_commit(table, TxConn(ops[i]))
                      ELSE Transaction_rollback(table, TxConn(ops[i]))
    /\ created' = 0
    /\ closed' = NoSpan
    /\ UNCHANGED <<backend, builder, arcs, pool, handles>>

\* a PoolConnection, Transaction or Connection goes out of scope. A Transaction
\* that has served as an executor is one that is never dropped in place: its
\* transaction stays open on the connection, also when the PoolConnection it
\* was begun on is dropped and the connection goes back to the pool.
DropHandle ==
  \E h \in HandleIds :
    /\ handles[h].kind # "" /\ ~Borrowed(h)
    /\ ~(handles[h].kind = "Transaction" /\ handles[h].spent)
    /\ handles' = [handles EXCEPT ![h] = NoHandle]
    /\ inner' = IF handles[h].parent = 0 /\ handles[h].kind # "Connection"
                  THEN Returned(handles[h].inner) ELSE inner
    /\ table' = IF handles[h].kind = "Transaction"
                   THEN SqlRollback(table, handles[h].inner) ELSE table
    /\ acted' = Act("drop", handles[h].kind, "drop", 0)
    /\ Quiet
    /\ UNCHANGED <<backend, builder, arcs, pool, ops, ambient>>

\* ------------------------------------------------------------------ one future at a time
\* One task that holds one future or stream at a time: it may poll it by hand,
\* leave it suspended, cancel it, or keep it after it is ready, and makes its
\* next call once the previous future is dropped.  (SpecOverlap is the caller
\* that holds two.)

\* the pools a scenario starts from: of the backends dbs and the sizes given,
\* connected as the tests connect theirs or, with any, to any of the addresses
InitOn(dbs, sizes, any) ==
  /\ Init
  /\ backend \in dbs
  /\ inner.max_connections \in sizes
  /\ any \/ inner.connect_options = UnderTest(backend)

\* any of the ten Executor methods on any carrier, with a statement that reads
ReadCall ==
  \E c \in Carriers, op \in ExecutorOps, sql \in {"SELECT 1", "SELECT 3"} :
    ExecutorCall(c, op, sql)

NextOneAtATime ==
  \/ WithQueryTextRecording \/ WithErrorDetailRecording \/ Build
  \/ Sequential /\ ReadCall
  \/ Sequential /\ PoolAcquire
  \/ Sequential /\ PoolBegin
  \/ Sequential /\ PoolClose
  \/ Sequential /\ Ping
  \/ Sequential /\ ConnBegin
  \/ Sequential /\ Commit
  \/ Sequential /\ Rollback
  \/ PollFuture \/ PollNext \/ DropFuture \/ PollAsyncFn \/ PollPlain
  \/ TryAcquire \/ TxExecutor \/ DropHandle

SpecOneAtATime == InitOn({"sqlite"}, {1}, FALSE) /\ [][NextOneAtATime]_vars

\* ------------------------------------------------------------------ the builder and the spans it shapes
\* A pool of any backend and any connect options, the four identifying
\* setters in any order, build(), and then the steps that create a span: the
\* ten Executor calls on every carrier, try_acquire, and acquire / begin /
\* close / ping / PoolConnection::begin. No query is polled, so each query
\* span is seen as it was created.
NextBuilder ==
  \/ WithName \/ WithDatabase \/ WithHost \/ WithPort \/ Build
  \/ Sequential /\ ReadCall
  \/ Sequential /\ PoolAcquire
  \/ Sequential /\ PoolBegin
  \/ Sequential /\ PoolClose
  \/ Sequential /\ Ping
  \/ Sequential /\ ConnBegin
  \/ DropFuture \/ PollAsyncFn
  \/ TryAcquire \/ DropHandle

SpecBuilder == InitOn(Backends, {1}, TRUE) /\ [][NextBuilder]_vars

\* ------------------------------------------------------------------ accessors of the pool
\* an is_closed that answers for the wrapper and never asks the driver pool
is_closed_never(p) == FALSE

\* Pool::is_closed: self.inner.is_closed()
is_closed(p) == p.closed

\* Pool::num_idle: self.inner.num_idle()
num_idle(p) == Cardinality(p.idle)

\* ------------------------------------------------------------------ transactions and the table
\* The runs of the transaction tests: the only writes are INSERTs executed
\* through the Connection that executor() borrows from a Transaction, and the
\* pool is asked for the rows it sees.
TxExecute ==
  \E c \in HandleIds, sql \in SqlTexts :
    /\ handles[c].kind = "Connection"
    /\ ExecutorCall(c, "execute", sql)

PoolQuery == ExecutorCall(0, "fetch_all", "SELECT 1")

\* transactions that end by rollback or by drop only
NextRollback ==
  \/ Build \/ PoolAcquire \/ PoolBegin \/ ConnBegin \/ PollAsyncFn
  \/ TxExecutor \/ TxExecute \/ PoolQuery \/ PollFuture \/ DropFuture
  \/ Rollback \/ PollPlain \/ DropHandle

SpecRollback == InitOn(Backends, {1}, FALSE) /\ [][NextRollback]_vars

\* the same with commit
NextTx == NextRollback \/ Commit

SpecTx == InitOn(Backends, {1}, FALSE) /\ [][NextTx]_vars

\* ------------------------------------------------------------------ the escape hatch
\* an accessor that hands out the instrumented pool instead of the driver pool
Pool_inner_instrumented(op, sql, attrs, db) == PoolExecutor(op, sql, attrs, db)

\* pool.inner().<op>(sql): &self.inner is the driver pool, and the call on it
\* is the driver's own future, with no span and no recorder around it
Pool_inner(op, sql, attrs, db) ==
  [span |-> NoSpan, record_details |-> FALSE, shape |-> "raw", onOk |-> "nothing"]

\* pool.as_ref().<op>(sql): &self.inner again
as_ref(op, sql, attrs, db) ==
  [span |-> NoSpan, record_details |-> FALSE, shape |-> "raw", onOk |-> "nothing"]

\* the methods called on the driver pool: the write and the read the table follows
RawOps == {"execute", "fetch_all"}

\* a call on the driver pool the accessor returned
RawCall(w, op, sql) ==
  /\ Built
  /\ FreeSlots # {}
  /\ LET i == Min(FreeSlots)
     IN  /\ ops' = [ops EXCEPT ![i] =
                      [op |-> op, carrier |-> 0, kind |-> "sqlx::Pool", sql |-> sql,
                       span |-> w.span, record_details |-> w.record_details,
                       shape |-> w.shape, onOk |-> w.onOk, phase |-> "running",
                       produced |-> 0, conn |-> 0]]
         /\ acted' = Act(op, "sqlx::Pool", "call", i)
  /\ created' = IF w.span = NoSpan THEN 0 ELSE 1
  /\ driverOut' = Nothing
  /\ driverCtx' = "none"
  /\ delivered' = Nothing
  /\ closed' = NoSpan
  /\ UNCHANGED <<backend, builder, arcs, pool, inner, handles, ambient, table>>

ViaInner ==
  \E op \in RawOps, sql \in SqlTexts :
    RawCall(Pool_inner(op, sql, arcs[pool], backend), op, sql)

ViaAsRef ==
  \E op \in RawOps, sql \in SqlTexts :
    RawCall(as_ref(op, sql, arcs[pool], backend), op, sql)

\* the caller polls the driver's future: what the driver answers is what it gets
PollRaw ==
  \E i \in Slots :
    /\ ops[i].shape = "raw"
    /\ ops[i].phase = "running"
    /\ \E a \in DriverPoll(ops[i]) :
         LET o == ops[i]
         IN  /\ driverOut' = a.res
             /\ driverCtx' = Ctx(NoSpan, ambient).current
             /\ delivered' = a.res
             /\ acted' = Act(o.op, o.kind, "poll", i)
             /\ IF a.res.tag = "Pending"
                  THEN /\ ops' = [ops EXCEPT ![i].conn = a.conn]
                       /\ inner' = CheckedOut(a.conn)
                  ELSE /\ ops' = [ops EXCEPT ![i].phase = "done", ![i].conn = 0]
                       /\ inner' = Returned(a.conn)
             /\ table' = IF a.res.tag = "Ok" /\ Writes(o)
                            THEN SqlInsert(table, a.conn) ELSE table
    /\ created' = 0
    /\ closed' = NoSpan
    /\ UNCHANGED <<backend, builder, arcs, pool, handles, ambient>>

\* the instrumented pool's write and read, next to the driver pool's
NextInner ==
  \/ WithQueryTextRecording \/ WithErrorDetailRecording \/ Build
  \/ ViaInner \/ ViaAsRef \/ PollRaw
  \/ (\E sql \in SqlTexts : ExecutorCall(0, "execute", sql)) \/ PoolQuery \/ PollFuture
  \/ DropFuture

SpecInner == InitOn(Backends, {1}, FALSE) /\ [][NextInner]_vars

\* ------------------------------------------------------------------ one task, awaiting each call
\* The caller of the tests: one task that awaits every future to its end
\* before it makes the next call, and never cancels.  An awaited future is
\* polled until it is ready and dropped as soon as it is, and the driver does
\* answer a query it has a connection for: the step Served is taken if it
\* stays possible.
\* the end of `.await`: the future that has returned Ready is dropped
AwaitEnds ==
  /\ DropFuture
  /\ ops[acted'.slot].phase = "done"

Served ==
  /\ PollFuture
  /\ driverOut'.tag # "Pending"
  /\ driverOut'.kind # "PoolTimedOut"

NextSeq ==
  \/ Sequential /\ Build
  \/ Sequential /\ PoolAcquire
  \/ Sequential /\ PoolBegin
  \/ Sequential /\ ConnBegin
  \/ Sequential /\ TxExecutor
  \/ Sequential /\ TxExecute
  \/ Sequential /\ PoolQuery
  \/ Sequential /\ Commit
  \/ Sequential /\ Rollback
  \/ Sequential /\ DropHandle
  \/ PollAsyncFn \/ PollFuture \/ PollPlain \/ AwaitEnds

SpecSeq == InitOn(Backends, {1}, FALSE) /\ [][NextSeq]_vars /\ WF_vars(Served) /\ WF_vars(AwaitEnds)

\* ------------------------------------------------------------------ the pool's connections
\* A sqlite pool of one or of two connections and everything that takes a
\* connection out of it or gives one back: acquire, try_acquire, begin, a query
\* on the pool, commit and rollback, the drop of a handle, and close, next to
\* a transaction begun on a PoolConnection and a query made on a Transaction
\* itself, which leaves it behind. acquire, close, commit and rollback may be
\* in flight together; begin and the queries are made one at a time.
TxQuery ==
  \E c \in HandleIds :
    handles[c].kind = "Transaction" /\ ExecutorCall(c, "fetch_all", "SELECT 1")

NextPool ==
  \/ Build \/ TryAcquire
  \/ PoolAcquire \/ PoolClose
  \/ Sequential /\ PoolBegin
  \/ Sequential /\ ConnBegin
  \/ Sequential /\ PoolQuery
  \/ Sequential /\ TxQuery
  \/ Commit \/ Rollback
  \/ PollAsyncFn \/ PollFuture \/ DropFuture \/ PollPlain \/ DropHandle

SpecPool == InitOn({"sqlite"}, 1..PoolMax, FALSE) /\ [][NextPool]_vars

\* ------------------------------------------------------------------ two futures at once
\* A caller that holds two futures or streams at once, of the shared pool
\* (`let a = (&pool).execute(..); let b = (&pool).fetch(..);`), of the pool and
\* a PoolConnection, Transaction or Connection, or of two handles, and polls,
\* cancels and drops them in any order: two spans are open at the same time
\* and each is closed when its own future is dropped.
\* one operation of each macro: exec_fut!, exec_fut_rows!, exec_fut_one!,
\* exec_fut_opt! and exec_stream!
OverlapCall ==
  \E c \in {0} \cup HandleIds,
     op \in {"execute", "fetch_all", "fetch_one", "fetch_optional", "fetch"} :
    ExecutorCall(c, op, "SELECT 1")

NextOverlap ==
  \/ WithErrorDetailRecording \/ Build
  \/ OverlapCall \/ PoolAcquire \/ PoolBegin \/ TxExecutor
  \/ PollFuture \/ PollNext \/ PollAsyncFn \/ DropFuture \/ DropHandle

SpecOverlap == InitOn({"sqlite"}, {1}, FALSE) /\ [][NextOverlap]_vars

\* ------------------------------------------------------------------ the whole surface
\* Every step a caller of the crate can take, in any order and with as many
\* futures and streams alive at once as there are slots.  The specifications
\* above are callers that take some of these steps.
Next ==
  \/ WithName \/ WithDatabase \/ WithHost \/ WithPort
  \/ WithQueryTextRecording \/ WithErrorDetailRecording \/ Build
  \/ Describe \/ Execute \/ ExecuteMany \/ Fetch \/ FetchAll \/ FetchMany
  \/ FetchOne \/ FetchOptional \/ Prepare \/ PrepareWith
  \/ PollFuture \/ PollNext \/ DropFuture
  \/ PoolAcquire \/ PoolBegin \/ PoolClose \/ Ping \/ ConnBegin \/ PollAsyncFn
  \/ TryAcquire \/ TxExecutor \/ Commit \/ Rollback \/ PollPlain \/ DropHandle
  \/ ViaInner \/ ViaAsRef \/ PollRaw

Spec == Init /\ [][Next]_vars

\* ------------------------------------------------------------------ record_error on its inputs
\* An instrumented future whose driver call is about to fail with any error
\* value, under any pair of toggles: the state PollFuture is in when the
\* driver answers Err.
InitRecordError ==
  /\ backend \in Backends
  /\ builder = None
  /\ inner = [DriverPool(1, UnderTest(backend)) EXCEPT !.idle = {}]
  /\ \E q \in BOOLEAN, d \in BOOLEAN :
       arcs = << with_error_detail_recording(
                   with_query_text_recording(BuilderFrom(backend, inner), q), d) >>
  /\ pool = 1
  /\ table = EmptyTable
  /\ handles = [h \in HandleIds |-> NoHandle]
  /\ \E op \in { m \in ExecutorOps :
                    PoolExecutor(m, "", AttributesDefault, "sqlite").shape = "future" },
        sql \in SqlTexts :
       LET w == ExecutorOf("Pool", op, sql, arcs[pool], backend)
       IN  /\ ops = [i \in Slots |->
                      IF i = 1
                        THEN [op |-> op, carrier |-> 0, kind |-> "Pool", sql |-> sql,
                              span |-> w.span, record_details |-> w.record_details,
                              shape |-> w.shape, onOk |-> w.onOk, phase |-> "running",
                              produced |-> 0, conn |-> 1]
                        ELSE Idle]
           /\ acted = Act(op, "Pool", "poll", 1)
  /\ ambient = CallerSpan
  /\ created = 0
  /\ driverOut = Pending
  /\ driverCtx = "own"
  /\ delivered = Pending
  /\ closed = NoSpan

\* the driver future fails with e and the future is polled
FailWith ==
  \E e \in Errors :
    /\ ops[1].op # ""
    /\ ops[1].phase = "running"
    /\ LET o == ops[1]
           p == PollInstrumented(Ctx(o.span, ambient), e, o.onOk, o.record_details)
       IN  /\ driverOut' = e
           /\ driverCtx' = p.driverCtx
           /\ delivered' = p.out
           /\ ambient' = p.ctx.ambient
           /\ closed' = NoSpan
           /\ acted' = Act(o.op, o.kind, "poll", 1)
           /\ ops' = [ops EXCEPT ![1].span = p.ctx.own, ![1].phase = "done",
                                 ![1].conn = 0]
           /\ inner' = Returned(o.conn)
    /\ created' = 0
    /\ UNCHANGED <<backend, builder, arcs, pool, handles, table>>

SpecRecordError == InitRecordError /\ [][FailWith]_vars

\* ------------------------------------------------------------------ claims
\* the attributes every span of the pool's lineage is built from
Attrs == arcs[pool]

\* the span of the operation the last step belongs to: the one it closed, or
\* the one its future or stream still holds (a boxed future that has returned
\* Ready holds its span until the caller drops the box)
OwnSpan ==
  IF closed # NoSpan THEN closed
  ELSE IF acted.slot \in Slots THEN ops[acted.slot].span
  ELSE NoSpan

\* o is a call of an Executor method on one of the four instrumented surfaces
OnSurface(o) == o.kind \in Executors /\ o.op \in ExecutorOps

\* the last step belongs to the instrumented surface, not to the driver pool
\* that inner() / as_ref() hand out
Traced == acted.kind # "sqlx::Pool"

\* every span a state holds: the live ones and the one just closed
LiveSpans == { ops[i].span : i \in Slots } \ {NoSpan}
AllSpans  == (LiveSpans \cup {closed}) \ {NoSpan}

\* C1: what the caller receives from a poll of any instrumented operation, from
\* try_acquire and from commit / rollback is what the driver answered in that
\* poll: the same value or error, or (acquire, begin, try_acquire) the wrapper
\* around exactly the driver connection or transaction the driver returned;
\* a stream hands over the element the driver stream produced in that poll.
C1_TransparentDecoration ==
  (acted.event = "poll" \/ acted.op = "try_acquire") =>
    IF delivered.tag \in {"Ok", "Some"} /\ delivered.kind \in {"PoolConnection", "Transaction"}
      THEN /\ driverOut.tag = delivered.tag
           /\ handles[delivered.n].kind = delivered.kind
           /\ handles[delivered.n].inner = driverOut.n
      ELSE delivered = driverOut

\* a failing fetch_one with both toggles off, its error handed on as it is
C1_Witness ==
  /\ Built
  /\ acted.op = "fetch_one" /\ acted.event = "poll"
  /\ driverOut = Err("RowNotFound", "p1")
  /\ delivered = driverOut
  /\ ~Attrs.record_query_text /\ ~Attrs.record_error_details

\* C2: record_error sets error.type to "client" exactly for the seven variants
\* ColumnIndexOutOfBounds, ColumnDecode, ColumnNotFound, Decode, Encode,
\* RowNotFound, TypeNotFound and to "server" for every other variant, whatever
\* record_error_details is.
C2_ErrorClassification ==
  (acted.event = "poll" /\ driverOut.tag = "Err") =>
    /\ OwnSpan.fields["error.type"] \in {V("client"), V("server")}
    /\ OwnSpan.fields["error.type"] = V("client") <=> driverOut.kind \in ClientVariants

\* RowNotFound classified with the details toggle off
C2_Witness ==
  /\ ops[acted.slot].phase = "done"
  /\ driverOut = Err("RowNotFound", "p1")
  /\ ~Attrs.record_error_details
  /\ OwnSpan.fields["error.type"] = V("client")

SqlSpanNames ==
  {"sqlx.describe", "sqlx.execute", "sqlx.execute_many", "sqlx.fetch", "sqlx.fetch_all",
   "sqlx.fetch_many", "sqlx.fetch_one", "sqlx.fetch_optional", "sqlx.prepare",
   "sqlx.prepare_with"}

\* the db.query.text the claim allows for a call that passed sql
QueryText(sql) == IF Attrs.record_query_text THEN V(sql) ELSE Empty

\* C3: with record_query_text = false no span of an SQL operation, on the pool
\* or on a connection or transaction derived from it, has db.query.text set;
\* with the toggle true db.query.text is the SQL text passed to the call, from
\* the span's creation until it closes.
C3_QueryTextRedaction ==
  /\ [](Built =>
          /\ \A i \in Slots :
               OnSurface(ops[i]) =>
                 ops[i].span.fields["db.query.text"] = QueryText(ops[i].sql)
          /\ (closed # NoSpan /\ ~Attrs.record_query_text /\ closed.name \in SqlSpanNames) =>
               closed.fields["db.query.text"] = Empty)
  /\ [][\A i \in Slots :
          (OnSurface(ops[i]) /\ ops'[i].op = "") =>
            closed'.fields["db.query.text"] = QueryText(ops[i].sql)]_vars

\* a query on a transaction's borrowed Connection, with the text not recorded
C3_Witness ==
  /\ Built
  /\ ~Attrs.record_query_text
  /\ \E i \in Slots :
       /\ ops[i].kind = "Connection" /\ ops[i].op = "fetch" /\ ops[i].sql = "SELECT 3"
       /\ ops[i].span.fields["db.query.text"] = Empty

\* the three fields record_error writes only when record_error_details is on
DetailKeys == {"error.message", "error.stacktrace", "otel.status_description"}

\* the operations that create a span and can hand an error to their caller
FallibleSpanned == ExecutorOps \cup {"acquire", "begin", "conn_begin", "ping"}

\* the last step delivered an error of an operation that owns a span
FailureDelivered ==
  /\ Traced
  /\ acted.event = "poll"
  /\ acted.op \in FallibleSpanned
  /\ delivered.tag = "Err"

\* with the toggle off no span of the lineage has a detail field set
DetailsStayEmpty ==
  (Built /\ ~Attrs.record_error_details) =>
    \A s \in AllSpans : \A k \in DetailKeys \cap DOMAIN s.fields : s.fields[k] = Empty

\* C4: with record_error_details = false the span of a failing operation has
\* error.type and otel.status_code set, and error.message, error.stacktrace and
\* otel.status_description are empty in every span of the pool's lineage.
C4_ErrorDetailRedaction ==
  (Built /\ ~Attrs.record_error_details) =>
    /\ DetailsStayEmpty
    /\ FailureDelivered =>
         /\ OwnSpan.fields["error.type"] # Empty
         /\ OwnSpan.fields["otel.status_code"] # Empty

\* how many of the three detail fields a span has set
DetailsSet(s) == Cardinality({k \in DetailKeys \cap DOMAIN s.fields : s.fields[k] # Empty})

\* no span has exactly one or two of the three detail fields
DetailsAllOrNone == \A s \in AllSpans : DetailsSet(s) \in {0, 3}

\* C5: with record_error_details = true the span of a failing operation has
\* error.message = the error's display form, otel.status_description = the same
\* message and error.stacktrace = the error's debug form; no span ever has
\* exactly one or two of the three set.
C5_ErrorDetailsComplete ==
  /\ DetailsAllOrNone
  /\ (Built /\ Attrs.record_error_details /\ FailureDelivered) =>
       /\ OwnSpan.fields["error.message"] = V(to_string(driverOut))
       /\ OwnSpan.fields["otel.status_description"] = OwnSpan.fields["error.message"]
       /\ OwnSpan.fields["error.stacktrace"] = V(debug_fmt(driverOut))

\* C6: when an instrumented operation (a future-returning executor call, an
\* element of execute_many / fetch / fetch_many, acquire, begin, ping) hands an
\* error to its caller, the span created for that operation has
\* otel.status_code = "error" and error.type set.
C6_FailureMarksOwnSpan ==
  FailureDelivered =>
    /\ OwnSpan.fields["otel.status_code"] = V("error")
    /\ OwnSpan.fields["error.type"] # Empty

\* the same for the operations whose wrapper is a future: these do mark their span
FutureFailureMarksOwnSpan ==
  (FailureDelivered /\ acted.op \notin {"execute_many", "fetch", "fetch_many"}) =>
    /\ OwnSpan.fields["otel.status_code"] = V("error")
    /\ OwnSpan.fields["error.type"] # Empty

\* an error element of a stream leaves the stream's span unmarked and marks
\* the span that is current in the caller instead
StreamFailureMarksCallerSpan ==
  (FailureDelivered /\ acted.op \in {"execute_many", "fetch", "fetch_many"}) =>
    /\ OwnSpan.fields["otel.status_code"] = Empty
    /\ OwnSpan.fields["error.type"] = Empty
    /\ ambient.fields["otel.status_code"] = V("error")

\* C7: a fetch_all that succeeds with N rows, N >= 0, leaves
\* db.response.returned_rows = N on its sqlx.fetch_all span when it returns,
\* on every carrier.
C7_FetchAllReturnedRows ==
  (Traced /\ acted.op = "fetch_all" /\ acted.event = "poll" /\ driverOut.tag = "Ok") =>
    /\ OwnSpan.name = "sqlx.fetch_all"
    /\ OwnSpan.fields["db.response.returned_rows"] = V(driverOut.n)

\* an empty result on the Connection borrowed from a transaction
C7_Witness ==
  /\ acted = Act("fetch_all", "Connection", "poll", acted.slot)
  /\ driverOut = Ok("Rows", 0)
  /\ OwnSpan.fields["db.response.returned_rows"] = V(0)

\* C8: a fetch_one that succeeds leaves db.response.returned_rows = 1 on its
\* span; a fetch_optional that succeeds leaves 1 if the result holds a row and 0
\* if it is absent.
C8_FetchOneOptionalReturnedRows ==
  (Traced /\ acted.event = "poll" /\ driverOut.tag = "Ok") =>
    /\ acted.op = "fetch_one" =>
         OwnSpan.fields["db.response.returned_rows"] = V(1)
    /\ acted.op = "fetch_optional" =>
         OwnSpan.fields["db.response.returned_rows"] =
           V(IF driverOut.kind = "Some" THEN 1 ELSE 0)

\* a fetch_optional on the pool that found no row
C8_Witness ==
  /\ acted = Act("fetch_optional", "Pool", "poll", acted.slot)
  /\ driverOut = Ok("None", 0)
  /\ OwnSpan.name = "sqlx.fetch_optional"
  /\ OwnSpan.fields["db.response.returned_rows"] = V(0)

\* C9: every PoolConnection, Transaction and Connection alive holds the very
\* allocation of Attributes its Pool holds, and once build() has run no step
\* moves the Pool to another allocation or changes a field of that allocation.
C9_SharedFrozenAttributes ==
  /\ [](\A h \in HandleIds : handles[h].kind # "" => handles[h].attributes = pool)
  /\ [][Built => (pool' = pool /\ arcs'[pool] = arcs[pool])]_vars

\* a PoolConnection, the Transaction begun on it and the Connection borrowed
\* from that Transaction, alive together
C9_Witness ==
  \E c, t, e \in HandleIds :
    /\ handles[c].kind = "PoolConnection"
    /\ handles[t].kind = "Transaction" /\ handles[t].parent = c
    /\ handles[e].kind = "Connection" /\ handles[e].parent = t
    /\ handles[e].attributes = pool

\* the fourteen span names
SpanNames ==
  SqlSpanNames \cup
  {"sqlx.pool.acquire", "sqlx.pool.close", "sqlx.transaction.begin", "sqlx.connection.ping"}

\* the name the span of each operation is to have
ExpectedName(op) ==
  CASE op = "describe"       -> "sqlx.describe"
    [] op = "execute"        -> "sqlx.execute"
    [] op = "execute_many"   -> "sqlx.execute_many"
    [] op = "fetch"          -> "sqlx.fetch"
    [] op = "fetch_all"      -> "sqlx.fetch_all"
    [] op = "fetch_many"     -> "sqlx.fetch_many"
    [] op = "fetch_one"      -> "sqlx.fetch_one"
    [] op = "fetch_optional" -> "sqlx.fetch_optional"
    [] op = "prepare"        -> "sqlx.prepare"
    [] op = "prepare_with"   -> "sqlx.prepare_with"
    [] op = "acquire"        -> "sqlx.pool.acquire"
    [] op = "try_acquire"    -> "sqlx.pool.acquire"
    [] op = "close"          -> "sqlx.pool.close"
    [] op = "begin"          -> "sqlx.transaction.begin"
    [] op = "conn_begin"     -> "sqlx.transaction.begin"
    [] op = "ping"           -> "sqlx.connection.ping"
    [] OTHER                 -> "no span"

\* C10: every span has one of the fourteen names, and the span an operation
\* creates has that operation's name, on all four carriers; acquire and
\* try_acquire share sqlx.pool.acquire, Pool::begin and PoolConnection::begin
\* share sqlx.transaction.begin.
C10_SpanNames ==
  /\ \A s \in AllSpans : s.name \in SpanNames
  /\ \A i \in Slots : ops[i].span # NoSpan => ops[i].span.name = ExpectedName(ops[i].op)
  /\ closed # NoSpan => closed.name = ExpectedName(acted.op)

\* try_acquire has just created and closed its sqlx.pool.acquire span
C10_Witness ==
  /\ acted.op = "try_acquire"
  /\ created = 1
  /\ closed.name = "sqlx.pool.acquire"

\* the 17 keys of the SQL-operation schema, the 6 a lifecycle span leaves out,
\* and the keys that are filled only after the outcome is known
SqlSchema ==
  {"db.name", "db.operation", "db.query.text", "db.response.affected_rows",
   "db.response.returned_rows", "db.response.status_code", "db.sql.table",
   "db.system.name", "error.type", "error.message", "error.stacktrace",
   "net.peer.name", "net.peer.port", "otel.kind", "otel.status_code",
   "otel.status_description", "peer.service"}
LifecycleSchema ==
  SqlSchema \ {"db.operation", "db.query.text", "db.response.affected_rows",
               "db.response.returned_rows", "db.response.status_code", "db.sql.table"}
DeferredKeys ==
  {"db.operation", "db.response.affected_rows", "db.response.returned_rows",
   "db.response.status_code", "db.sql.table", "error.type", "error.message",
   "error.stacktrace", "otel.status_code", "otel.status_description"}

\* the keys a span has, by its shape
HasSchema(s) ==
  DOMAIN s.fields = IF s.name \in SqlSpanNames THEN SqlSchema ELSE LifecycleSchema

\* the keys bound at creation from the Attribute Set and the backend
BoundFromAttributes(s) ==
  /\ s.fields["db.name"] = Attrs.database
  /\ s.fields["db.system.name"] = V(IF backend = "postgres" THEN "postgresql" ELSE "sqlite")
  /\ s.fields["net.peer.name"] = Attrs.host
  /\ s.fields["net.peer.port"] = Attrs.port
  /\ s.fields["peer.service"] = Attrs.name
  /\ s.fields["otel.kind"] = V("client")

\* C11: an SQL-operation span has exactly the 17 keys of the SQL schema, a
\* lifecycle span (acquire, try_acquire, close, begin, ping) exactly those
\* minus db.operation, db.query.text, db.response.affected_rows,
\* db.response.returned_rows, db.response.status_code and db.sql.table; db.name,
\* db.system.name, net.peer.name, net.peer.port and peer.service are bound from
\* the Attribute Set and the backend, otel.kind is "client", and in the step
\* that creates the span every deferred key is empty.
C11_SpanSchemaByShape ==
  /\ \A s \in AllSpans : HasSchema(s) /\ BoundFromAttributes(s)
  /\ (created = 1 /\ driverOut.tag # "Err") =>
       \A k \in DeferredKeys \cap DOMAIN OwnSpan.fields : OwnSpan.fields[k] = Empty

\* a ping span just created on a sqlite pool that was given a name and a port
C11_Witness ==
  /\ backend = "sqlite"
  /\ acted.op = "ping" /\ created = 1 /\ driverOut.tag = "Pending"
  /\ OwnSpan.name = "sqlx.connection.ping"
  /\ OwnSpan.fields["peer.service"] = V("orders-svc")
  /\ OwnSpan.fields["net.peer.port"] = V(6432)
  /\ OwnSpan.fields["db.name"] = Empty

\* an SQL span just created on a postgres pool whose host was overridden
SqlSchemaWitness ==
  /\ backend = "postgres"
  /\ acted.op = "fetch_many" /\ acted.event = "call" /\ created = 1
  /\ DOMAIN OwnSpan.fields = SqlSchema
  /\ OwnSpan.fields["net.peer.name"] = V("db.internal")
  /\ OwnSpan.fields["db.name"] = V("postgres")

\* the step taken ends a transaction: commit or rollback (called, polled or
\* cancelled), or the drop of a Transaction handle
EndsTransaction(a) ==
  \/ a.op \in {"commit", "rollback"}
  \/ a.op = "drop" /\ a.kind = "Transaction"

\* C12: commit, rollback and the drop of a Transaction create no span and
\* close none; they leave every span alive, and the caller's span, exactly as
\* it was, also when commit or rollback fails.
C12_TransactionEndUninstrumented ==
  [][EndsTransaction(acted') =>
       /\ created' = 0
       /\ closed' = NoSpan
       /\ \A i \in Slots : ops'[i].span = ops[i].span
       /\ ambient' = ambient]_vars

\* a rollback that failed
C12_Witness ==
  /\ acted = Act("rollback", "Transaction", "poll", acted.slot)
  /\ delivered.tag = "Err"
  /\ created = 0 /\ closed = NoSpan /\ AllSpans = {}

\* a Transaction that was dropped without commit or rollback
TransactionDropWitness ==
  /\ acted = Act("drop", "Transaction", "drop", 0)
  /\ created = 0 /\ closed = NoSpan

\* the step completes, with success, the call in slot i
Succeeds(i) ==
  /\ ops[i].op # ""
  /\ acted' = Act(ops[i].op, ops[i].kind, "poll", i)
  /\ delivered'.tag = "Ok"

\* C13: a row inserted through the executor of a transaction begun with
\* Pool::begin or PoolConnection::begin is held by that transaction; a commit
\* that succeeds adds the transaction's rows to the committed rows and ends the
\* transaction; a query on the pool returns the committed rows (one insert then
\* commit gives count 1).
C13_CommitMakesWritesVisible ==
  [][\A i \in Slots :
       /\ (Succeeds(i) /\ Writes(ops[i]) /\ ops[i].kind = "Connection") =>
            LET c == handles[ops[i].carrier].inner
            IN  /\ c \in table.open
                /\ table'.pending[c] = table.pending[c] + 1
                /\ table'.rows = table.rows
       /\ (Succeeds(i) /\ ops[i].op = "commit") =>
            LET c == TxConn(ops[i])
            IN  /\ c \in table.open /\ c \notin table'.open
                /\ table'.rows = table.rows + table.pending[c]
       /\ (Succeeds(i) /\ Reads(ops[i]) /\ ops[i].carrier = 0) =>
            delivered'.n = table'.rows]_vars

\* the pool's query returns 1: the row a transaction inserted and committed
C13_Witness ==
  /\ acted = Act("fetch_all", "Pool", "poll", acted.slot)
  /\ delivered = Ok("Rows", 1)
  /\ table.rows = 1

\* C14: when transactions end only by rollback or by the drop of the
\* Transaction handle, the rows inserted through their executors never become
\* committed rows, and every query on the pool returns 0 rows (one insert then
\* rollback or drop gives count 0).
C14_NoCommitLeavesNoTrace ==
  /\ table.rows = 0
  /\ (acted = Act("fetch_all", "Pool", "poll", acted.slot) /\ delivered.tag = "Ok") =>
       delivered.n = 0

\* a rollback under way on a transaction that holds an inserted row
C14_Witness ==
  \E i \in Slots :
    /\ ops[i].op = "rollback" /\ ops[i].phase = "running"
    /\ table.pending[TxConn(ops[i])] = 1

\* a Transaction handle that holds an inserted row and can be dropped
DropWithInsertedRowWitness ==
  \E h \in HandleIds :
    /\ handles[h].kind = "Transaction" /\ ~Borrowed(h) /\ ~handles[h].spent
    /\ table.pending[handles[h].inner] = 1

\* the pool is asked after a transaction was dropped or rolled back
QueryAfterRollbackWitness ==
  /\ acted = Act("fetch_all", "Pool", "poll", acted.slot)
  /\ delivered = Ok("Rows", 0)
  /\ table = EmptyTable

\* a query on the pool is in flight / no handle holds a connection
PoolQueryInFlight ==
  \E i \in Slots : ops[i].op = "fetch_all" /\ ops[i].carrier = 0 /\ ops[i].phase = "running"
NoHolder == \A h \in HandleIds : handles[h].kind = ""

\* C15: when the commit or rollback of a top-level transaction ends, and when
\* a top-level Transaction is dropped, its connection is idle in the pool
\* again; so on the pool of one connection a query on the pool that is awaited
\* while no handle holds the connection does complete.
C15_ConnectionReleasedAtTransactionEnd ==
  /\ [][/\ \A i \in Slots :
             (ops[i].op \in {"commit", "rollback"} /\ ops[i].carrier = 0 /\ ops'[i].op = "") =>
               (ops[i].conn \in ConnIds /\ ops[i].conn \in inner'.idle)
        /\ \A h \in HandleIds :
             (handles[h].kind = "Transaction" /\ handles[h].parent = 0
                /\ handles'[h].kind = "" /\ acted'.op = "drop") =>
               handles[h].inner \in inner'.idle]_vars
  /\ (PoolQueryInFlight /\ NoHolder) ~> ~PoolQueryInFlight

\* the pool is queried after a transaction inserted a row and committed, and
\* the connection is idle for it
C15_Witness ==
  /\ PoolQueryInFlight /\ NoHolder
  /\ table.rows = 1
  /\ inner.idle = 1..inner.max_connections

\* the handles that hold a pooled connection of their own
Holders == { h \in HandleIds : handles[h].kind \in {"PoolConnection", "Transaction"}
                                 /\ handles[h].parent = 0 }

\* C16: try_acquire is one step with no future to await and never an error:
\* it returns a PoolConnection around an idle connection when the pool has one
\* to hand out, and the absent value, with no handle made and no connection
\* taken, when no connection is idle; on a pool of max_connections M at most
\* M handles hold a connection at once, each a connection of its own that is
\* not idle, so with M = 1 a second try_acquire returns the absent value while
\* the first handle is held.
C16_TryAcquireNeverBlocksNorFails ==
  /\ [][acted'.op = "try_acquire" =>
          /\ ops' = ops
          /\ delivered'.tag \in {"Some", "None"}
          /\ (inner.idle # {} /\ ~inner.closed) =>
               /\ delivered'.tag = "Some" /\ delivered'.kind = "PoolConnection"
               /\ handles[delivered'.n].kind = ""
               /\ handles'[delivered'.n].kind = "PoolConnection"
               /\ handles'[delivered'.n].inner \in inner.idle \ inner'.idle
               /\ \A h \in HandleIds \ {delivered'.n} : handles'[h] = handles[h]
          /\ inner.idle = {} =>
               /\ delivered' = NoneV
               /\ handles' = handles
               /\ inner' = inner]_vars
  /\ [](/\ Cardinality(Holders) <= inner.max_connections
        /\ \A g, h \in Holders : g # h => handles[g].inner # handles[h].inner
        /\ \A h \in Holders : handles[h].inner \notin inner.idle)

\* a pool of two connections, both held by PoolConnections that try_acquire
\* returned, each its own; the third try_acquire has returned the absent value
C16_Witness ==
  /\ acted.op = "try_acquire"
  /\ delivered = NoneV
  /\ inner.max_connections = 2
  /\ Cardinality(Holders) = 2
  /\ \A h \in Holders : handles[h].kind = "PoolConnection"
  /\ \E g, h \in Holders : handles[g].inner = 1 /\ handles[h].inner = 2
  /\ ~inner.closed

\* the pool of one connection: the second try_acquire returns the absent
\* value while the first PoolConnection is held
SecondTryAcquireAbsentWitness ==
  /\ acted.op = "try_acquire"
  /\ delivered = NoneV
  /\ inner.max_connections = 1
  /\ Cardinality(Holders) = 1
  /\ \A h \in Holders : handles[h].kind = "PoolConnection"
  /\ ~inner.closed

CloseResolvedWitness ==
  /\ acted = Act("close", "Pool", "poll", acted.slot)
  /\ delivered = Unit
  /\ is_closed(inner) /\ Holders = {}

\* close has resolved on a pool whose connection is back although the
\* Transaction begun on it was passed as an executor and never ended: the
\* PoolConnection was free to be dropped once that query's future was gone
CloseAfterAbandonedTransactionWitness ==
  /\ CloseResolvedWitness
  /\ \E g \in HandleIds :
       handles[g].kind = "Transaction" /\ handles[g].parent # 0 /\ Abandoned(g)

\* close has resolved on a pool of two connections, both idle again
CloseOfTwoResolvedWitness ==
  /\ CloseResolvedWitness
  /\ inner.max_connections = 2

\* C18: a call made on what inner() or as_ref() returns creates no span,
\* closes none and touches none; a write that succeeds, through the driver
\* pool or through the instrumented pool, adds its row to the one table, and a
\* read that succeeds, through either, returns the rows of that table: each
\* sees the other's writes and the same query gives the same result.
C18_EscapeHatchSharesThePool ==
  [][/\ acted'.kind = "sqlx::Pool" =>
          /\ created' = 0 /\ closed' = NoSpan
          /\ ambient' = ambient
          /\ \A j \in Slots :
               ops'[j].span = IF j = acted'.slot THEN NoSpan ELSE ops[j].span
     /\ \A i \in Slots :
          /\ (Succeeds(i) /\ Writes(ops[i]) /\ ops[i].carrier = 0) =>
               table'.rows = table.rows + 1
          /\ (Succeeds(i) /\ Reads(ops[i]) /\ ops[i].carrier = 0) =>
               (delivered'.n = table.rows /\ table' = table)]_vars

\* a row inserted through the driver pool that inner() returned
C18_Witness ==
  /\ acted = Act("execute", "sqlx::Pool", "poll", acted.slot)
  /\ delivered.tag = "Ok"
  /\ table.rows = 1

\* the instrumented pool reads the row, and the driver pool reads it
TracedReadSeesRowWitness ==
  /\ acted = Act("fetch_all", "Pool", "poll", acted.slot)
  /\ delivered = Ok("Rows", 1)
RawReadSeesRowWitness ==
  /\ acted = Act("fetch_all", "sqlx::Pool", "poll", acted.slot)
  /\ delivered = Ok("Rows", 1)

\* what the same call gives when it is made on the pool itself
OnPool(o) == PoolExecutor(o.op, o.sql, arcs[CarrierAttributes(o.carrier)], backend)

\* the spans a wrapper leaves once the driver has answered res
AfterOutcome(w, amb, res) ==
  IF w.shape = "future"
    THEN PollInstrumented(Ctx(w.span, amb), res, w.onOk, w.record_details).ctx
    ELSE PollStream(Ctx(w.span, amb), res, w.record_details).ctx

\* the operation's own span after a step: the span the step closed, or the
\* one the future or stream in slot i holds after it
HeldAfter(i, cl, newOps) == IF cl # NoSpan THEN cl ELSE newOps[i].span


\* C19: whichever of the four executor surfaces a call is made on, the span
\* it creates has the name and the fields the same call on the pool creates
\* (same operation, same Attributes, same SQL text), and once the driver has
\* answered, the operation's span and the caller's span hold the fields the
\* pool's wrapper leaves for the same answer. The four implementations wrap
\* every method alike, Transaction's hand-written describe included: for the
\* Attributes a pool is built with, which it keeps, every method of every
\* surface wraps as the pool's does.
C19_SurfacesInstrumentIdentically ==
  /\ [][/\ acted'.op = "build" =>
             \A k \in Executors, op \in ExecutorOps, sql \in SqlTexts :
               ExecutorOf(k, op, sql, Attrs', backend') = PoolExecutor(op, sql, Attrs', backend')
        /\ Built => (Built' /\ Attrs' = Attrs /\ backend' = backend)]_vars
  /\ [][\A i \in Slots :
          /\ (acted' = Act(ops'[i].op, ops'[i].kind, "call", i) /\ OnSurface(ops'[i])) =>
               ops'[i].span = OnPool(ops'[i]).span
          /\ (/\ acted' = Act(ops[i].op, ops[i].kind, "poll", i)
              /\ OnSurface(ops[i])
              /\ driverOut'.tag \in {"Ok", "Err"}) =>
               LET after == AfterOutcome(OnPool(ops[i]), ambient, driverOut')
               IN  /\ HeldAfter(i, closed', ops') = after.own
                   /\ ambient' = after.ambient]_vars

\* Transaction's hand-written describe has failed and its span carries the
\* error fields, details included
C19_Witness ==
  /\ acted = Act("describe", "Transaction", "poll", acted.slot)
  /\ driverOut.tag = "Err"
  /\ OwnSpan.name = "sqlx.describe"
  /\ OwnSpan.fields["error.type"] # Empty
  /\ OwnSpan.fields["error.message"] # Empty

\* each of the other surfaces has delivered the outcome of a call
SurfacesWitness(k) ==
  /\ acted.kind = k /\ acted.event = "poll" /\ acted.op \in ExecutorOps
  /\ driverOut.tag \in {"Ok", "Err"}
PoolConnectionSurfaceWitness == SurfacesWitness("PoolConnection")
ConnectionSurfaceWitness == SurfacesWitness("Connection")

\* the Attributes in force: the builder's until build(), the pool's after it
Configured == IF builder # None THEN builder[1] ELSE Attrs

\* a span-owning future has handed its caller an error
FutureFailureDelivered ==
  FailureDelivered /\ acted.op \notin {"execute_many", "fetch", "fetch_many"}

\* the defaults and the toggles: Attributes::default() has name, host, port
\* and database absent and both toggles true, a builder starts with both
\* toggles true, a toggle changes only in a call of its own setter, which sets
\* it to the argument and leaves the other toggle alone, and build() hands the
\* pool the builder's Attributes
TogglesAreOptOut ==
  /\ AttributesDefault.name = None /\ AttributesDefault.host = None
  /\ AttributesDefault.port = None /\ AttributesDefault.database = None
  /\ AttributesDefault.record_query_text /\ AttributesDefault.record_error_details
  /\ Configured.record_query_text /\ Configured.record_error_details
  /\ [][/\ Configured'.record_query_text # Configured.record_query_text =>
             acted' = Act("with_query_text_recording", "PoolBuilder", "call", 0)
        /\ Configured'.record_error_details # Configured.record_error_details =>
             acted' = Act("with_error_detail_recording", "PoolBuilder", "call", 0)
        /\ \A enabled \in BOOLEAN :
             /\ with_query_text_recording(Configured, enabled) =
                  [Configured EXCEPT !.record_query_text = enabled]
             /\ with_error_detail_recording(Configured, enabled) =
                  [Configured EXCEPT !.record_error_details = enabled]
        /\ acted'.op = "build" => Configured' = Configured]_vars

\* with a toggle true the pool records what it governs, as far as futures go:
\* every span of an SQL call holds the SQL text, and the span of a failing
\* future holds the error's message and debug form
FuturesRecordWhenToggled ==
  Built =>
    /\ Attrs.record_query_text =>
         \A i \in Slots :
           OnSurface(ops[i]) =>
             ops[i].span.fields["db.query.text"] = V(ops[i].sql)
    /\ (Attrs.record_error_details /\ FutureFailureDelivered) =>
         /\ OwnSpan.fields["error.message"] = V(to_string(driverOut))
         /\ OwnSpan.fields["error.stacktrace"] = V(debug_fmt(driverOut))

\* C20: Attributes::default() has name, host, port and database absent and
\* both toggles true, so a pool built from a builder on which neither toggle
\* setter was called records the SQL text on every span of an SQL call and the
\* error's message and debug form on the span of every operation that fails,
\* an element of a stream included.
C20_DefaultsAreOptOut ==
  /\ AttributesDefault.name = None /\ AttributesDefault.host = None
  /\ AttributesDefault.port = None /\ AttributesDefault.database = None
  /\ AttributesDefault.record_query_text /\ AttributesDefault.record_error_details
  /\ (Built /\ Attrs = BuilderFrom(backend, inner)) =>
       /\ \A i \in Slots :
            OnSurface(ops[i]) => ops[i].span.fields["db.query.text"] = V(ops[i].sql)
       /\ FailureDelivered =>
            /\ OwnSpan.fields["error.message"] = V(to_string(driverOut))
            /\ OwnSpan.fields["error.stacktrace"] = V(debug_fmt(driverOut))

\* a pool with both toggles true whose future failed: the span has the message
DefaultsRecordFailureWitness ==
  /\ Built
  /\ Attrs.record_query_text /\ Attrs.record_error_details
  /\ FutureFailureDelivered
  /\ OwnSpan.fields["error.message"] = V(to_string(driverOut))

\* the same pool holding the span of an SQL call, with the text in it
DefaultsRecordTextWitness ==
  /\ Built
  /\ Attrs.record_query_text /\ Attrs.record_error_details
  /\ \E i \in Slots : ops[i].op = "execute" /\ ops[i].span.fields["db.query.text"] = V("SELECT 3")

\* a toggle turned off by its setter, and built into the pool that way
ToggleOffWitness ==
  /\ Built
  /\ ~Attrs.record_query_text /\ Attrs.record_error_details

\* what the builder holds right after PoolBuilder::from, per backend: for
\* postgres the host and port the pool connects to and the first segment of
\* its database, if it has one; for sqlite the file name as host, if it is a
\* string, and nothing else
Detected ==
  LET o == inner.connect_options
  IN  IF backend = "postgres"
        THEN [name |-> None, host |-> Some(o.host), port |-> Some(o.port),
              database |-> IF o.database = None THEN None ELSE Some(o.database[1][1]),
              record_query_text |-> TRUE, record_error_details |-> TRUE]
        ELSE [name |-> None,
              host |-> IF o.filename.utf8 THEN Some(o.filename.name) ELSE None,
              port |-> None, database |-> None,
              record_query_text |-> TRUE, record_error_details |-> TRUE]

\* C21: PoolBuilder::from yields a builder for either backend, whatever the
\* pool was connected with. For sqlite it holds only the host, the file name
\* (no host when the file name is not a string), with port, database and name
\* absent and both toggles true; for postgres host, port and database are those
\* of the connection URL, database being the first path segment (absent when
\* the URL has no path). A later with_host /
\* with_port / with_database call replaces the detected value with its
\* argument and changes nothing else, and build() hands the pool what the
\* builder then holds.
C21_BuilderDetectsAndSettersOverride ==
  /\ builder # None
  /\ builder[1] = Detected
  /\ [][/\ acted' = Act("with_host", "PoolBuilder", "call", 0) =>
             \E host \in SetterInputs.host : builder'[1] = [builder[1] EXCEPT !.host = Some(host)]
        /\ acted' = Act("with_port", "PoolBuilder", "call", 0) =>
             \E port \in SetterInputs.port : builder'[1] = [builder[1] EXCEPT !.port = Some(port)]
        /\ acted' = Act("with_database", "PoolBuilder", "call", 0) =>
             \E database \in SetterInputs.database :
               builder'[1] = [builder[1] EXCEPT !.database = Some(database)]
        /\ acted' = Act("build", "PoolBuilder", "call", 0) => Attrs' = builder[1]]_vars

\* a postgres pool built after all three detected values were replaced, and a
\* span of it that carries the replacements
C21_Witness ==
  /\ backend = "postgres"
  /\ Detected.host = Some("10.0.0.7") /\ Detected.port = Some(6543)
  /\ Detected.database = Some("tenants")
  /\ Built
  /\ Attrs.host = Some("db.internal")
  /\ Attrs.port = Some(6432)
  /\ Attrs.database = Some("orders")
  /\ \E i \in Slots :
       /\ ops[i].op = "fetch_one"
       /\ ops[i].span.fields["net.peer.name"] = V("db.internal")
       /\ ops[i].span.fields["net.peer.port"] = V(6432)
       /\ ops[i].span.fields["db.name"] = V("orders")

\* a sqlite pool built from the builder as PoolBuilder::from left it
SqliteDetectedWitness ==
  /\ backend = "sqlite"
  /\ Built
  /\ Attrs = Detected
  /\ Attrs.host = Some("app.db")

\* a sqlite pool whose file name is not a string, built: no host
SqliteNoHostWitness ==
  /\ backend = "sqlite"
  /\ ~inner.connect_options.filename.utf8
  /\ Built
  /\ Attrs.host = None

\* a postgres pool with no database, built: no db.name
PostgresNoDatabaseWitness ==
  /\ backend = "postgres"
  /\ inner.connect_options.database = None
  /\ Built
  /\ Attrs = Detected /\ Attrs.database = None /\ Attrs.host = Some("localhost")

\* the operations whose wrapper is an instrumented future
StreamOps == {"execute_many", "fetch", "fetch_many"}
FutureExecutorOps == ExecutorOps \ StreamOps
FutureSpanned == FutureExecutorOps \cup {"acquire", "begin", "conn_begin", "ping", "close"}

\* no deferred field of span s holds a value
NothingRecorded(s) == \A k \in DeferredKeys \cap DOMAIN s.fields : s.fields[k] = Empty

\* C22: for every future-returning instrumented operation the span exists
\* before the driver call is first polled (an executor call creates it and
\* polls nothing; acquire / begin / ping / close create it at the start of
\* their first poll), every poll of the driver future runs with the
\* operation's span as the current span, the span is left when the poll
\* returns, a suspended operation's span stays open with nothing recorded in
\* it, and when the driver call completes the outcome is in the span by the
\* time the caller holds the result.
C22_DriverRunsInsideSpan ==
  /\ []((Traced /\ acted.event = "poll" /\ acted.op \in FutureSpanned) => driverCtx = "own")
  /\ [][\A i \in Slots :
          /\ (acted' = Act(ops'[i].op, ops'[i].kind, "call", i)
                /\ ops'[i].op \in FutureExecutorOps /\ ops'[i].kind \in Executors) =>
               /\ created' = 1 /\ ops'[i].span # NoSpan
               /\ driverOut' = Nothing /\ driverCtx' = "none"
          /\ (acted' = Act(ops[i].op, ops[i].kind, "poll", i)
                /\ ops[i].kind # "sqlx::Pool" /\ ops[i].op \in FutureSpanned) =>
               /\ ops[i].span # NoSpan \/ created' = 1
               /\ PollInstrumented(Ctx(ops[i].span, ambient), driverOut', ops[i].onOk,
                                   ops[i].record_details).ctx.current = "ambient"
               /\ driverOut'.tag = "Pending" =>
                    /\ closed' = NoSpan
                    /\ ops'[i].span # NoSpan /\ NothingRecorded(ops'[i].span)
                    /\ delivered' = Pending
               /\ driverOut'.tag = "Err" =>
                    /\ delivered' = driverOut'
                    /\ ops[i].op # "close" =>
                         HeldAfter(i, closed', ops').fields["error.type"] # Empty
               /\ (driverOut'.tag = "Ok" /\ ops[i].op \in {"fetch_all", "fetch_one", "fetch_optional"}) =>
                    HeldAfter(i, closed', ops').fields["db.response.returned_rows"] # Empty
               /\ ambient' = ambient
          /\ (acted' = Act(ops[i].op, ops[i].kind, "drop", i) /\ ops[i].phase = "done") =>
               closed' = ops[i].span]_vars

\* a fetch_one suspended once and then answered: polled inside its span both
\* times, and the row count is in the span when the caller holds the row
C22_Witness ==
  /\ acted.op = "fetch_one" /\ acted.event = "poll"
  /\ driverCtx = "own"
  /\ driverOut.tag = "Ok"
  /\ closed = NoSpan
  /\ ops[acted.slot].phase = "done"
  /\ ops[acted.slot].span.name = "sqlx.fetch_one"
  /\ ops[acted.slot].span.fields["db.response.returned_rows"] = V(1)

\* an acquire suspended in its first poll: the span was made and entered
SuspendedInsideSpanWitness ==
  /\ acted.op = "acquire" /\ acted.event = "poll"
  /\ created = 1 /\ driverCtx = "own" /\ driverOut.tag = "Pending"
  /\ ops[acted.slot].span.name = "sqlx.pool.acquire"

\* C23: for execute_many, fetch and fetch_many the operation's span is the
\* current span in every poll of the underlying stream: while it produces
\* each element, while it is suspended between elements, and when it ends,
\* a stream of no element included.
C23_StreamSpanStaysEntered ==
  (acted.event = "poll" /\ acted.op \in StreamOps) => driverCtx = "own"

\* what the stream wrapper does instead: the driver stream is always polled
\* with the caller's span current, and the stream's span is only entered and
\* left again after an element has come out
StreamPolledInCallerContext ==
  (acted.event = "poll" /\ acted.op \in StreamOps) => driverCtx = "ambient"

\* the operations that own a span while in flight
SpanOwning(o) == o.shape \in {"future", "stream", "async_fn"}

\* C24: when the caller drops an operation that is in flight, the driver is
\* not polled, the operation's span closes as it is, with every deferred field
\* empty (no otel.status_code, no error.*, no db.response.returned_rows), the
\* operation is gone so nothing is recorded for it later, and the caller's
\* span and the spans of the other operations are unchanged.
C24_CancellationLeavesSpanEmpty ==
  [][\A i \in Slots :
       (acted' = Act(ops[i].op, ops[i].kind, "drop", i) /\ SpanOwning(ops[i])
          /\ ops[i].phase # "done") =>
         /\ closed' = ops[i].span
         /\ NothingRecorded(closed')
         /\ driverOut' = Nothing /\ delivered' = Nothing
         /\ ops'[i].op = "" /\ ops'[i].span = NoSpan
         /\ ambient' = ambient
         /\ \A j \in Slots \ {i} : ops'[j] = ops[j]]_vars

\* a fetch_all dropped while in flight: its span closed with no outcome, and
\* the other future of the pool, which has failed, keeps its span as it was
C24_Witness ==
  /\ acted.op = "fetch_all" /\ acted.event = "drop"
  /\ closed.name = "sqlx.fetch_all"
  /\ closed.fields["db.response.returned_rows"] = Empty
  /\ closed.fields["otel.status_code"] = Empty
  /\ ops[acted.slot].op = ""
  /\ \E j \in Slots :
       /\ ops[j].op = "fetch_one" /\ ops[j].phase = "done"
       /\ ops[j].span.fields["otel.status_code"] = V("error")

\* an acquire dropped after its first poll left it waiting
AcquireCancelledWitness ==
  /\ acted.op = "acquire" /\ acted.event = "drop"
  /\ closed.name = "sqlx.pool.acquire"
  /\ NothingRecorded(closed)

\* the deferred fields the schema declares and no code path writes
ReservedKeys ==
  {"db.sql.table", "db.response.affected_rows", "db.operation", "db.response.status_code"}

\* the spans whose operation records a row count
RowCountingSpans == {"sqlx.fetch_all", "sqlx.fetch_one", "sqlx.fetch_optional"}

\* C25: in every reachable state, in every span (live, just closed, or the
\* caller's own), db.sql.table, db.response.affected_rows, db.operation and
\* db.response.status_code are empty, and db.response.returned_rows is set
\* only in a span of fetch_all, fetch_one or fetch_optional; the span of an
\* execute that succeeded closes with db.response.affected_rows empty.
C25_ReservedFieldsStayEmpty ==
  /\ \A s \in AllSpans \cup {ambient} :
       /\ \A k \in ReservedKeys \cap DOMAIN s.fields : s.fields[k] = Empty
       /\ ("db.response.returned_rows" \in DOMAIN s.fields
             /\ s.fields["db.response.returned_rows"] # Empty) =>
            s.name \in RowCountingSpans
  /\ (Traced /\ acted.op = "execute" /\ acted.event = "poll" /\ delivered.tag = "Ok") =>
       /\ OwnSpan.name = "sqlx.execute"
       /\ OwnSpan.fields["db.response.affected_rows"] = Empty
  /\ (Traced /\ acted.op = "execute" /\ acted.event = "drop") =>
       closed.fields["db.response.affected_rows"] = Empty

\* an execute that succeeded: its span holds no count
C25_Witness ==
  /\ acted.op = "execute" /\ acted.event = "poll"
  /\ delivered = Ok("QueryResult", 1)
  /\ OwnSpan.name = "sqlx.execute"
  /\ OwnSpan.fields["db.response.affected_rows"] = Empty
  /\ OwnSpan.fields["db.response.returned_rows"] = Empty

\* a fetch_optional that found its row: the one deferred count that is written
ReturnedRowsSetWitness ==
  /\ closed.name = "sqlx.fetch_optional"
  /\ closed.fields["db.response.returned_rows"] = V(1)

\* C26: recording an outcome changes only the span of the operation that
\* produced it: across every poll of an instrumented operation, future or
\* stream, the caller's span and the span of every other operation in flight
\* keep their fields.
C26_RecordingTouchesOwnSpanOnly ==
  [][\A i \in Slots :
       (acted' = Act(ops[i].op, ops[i].kind, "poll", i) /\ SpanOwning(ops[i])) =>
         /\ ambient' = ambient
         /\ \A j \in Slots \ {i} : ops'[j].span = ops[j].span]_vars

\* the part of it the code keeps: the polls of future-returning operations
FutureRecordingTouchesOwnSpanOnly ==
  [][\A i \in Slots :
       (acted' = Act(ops[i].op, ops[i].kind, "poll", i)
          /\ ops[i].shape \in {"future", "async_fn"}) =>
         /\ ambient' = ambient
         /\ \A j \in Slots \ {i} : ops'[j].span = ops[j].span]_vars

\* and what a stream does: an error element is recorded on the caller's span
StreamErrorChangesCallerSpan ==
  [][\A i \in Slots :
       (acted' = Act(ops[i].op, ops[i].kind, "poll", i) /\ ops[i].shape = "stream"
          /\ driverOut'.tag = "Err") =>
         /\ ambient'.fields["otel.status_code"] = V("error")
         /\ ops'[i].span = ops[i].span]_vars

\* the fields record_error writes
ErrorKeys ==
  {"error.type", "error.message", "error.stacktrace", "otel.status_code",
   "otel.status_description"}
NoErrorRecorded(s) == \A k \in ErrorKeys \cap DOMAIN s.fields : s.fields[k] = Empty

\* C27: when an instrumented operation hands its caller a success value, the
\* five error fields of its span are empty: in the span a finished future
\* holds or has closed, and in the span a stream still holds after an element
\* or its end. Every
\* span starts with all deferred fields empty, whatever happened before on
\* the same carrier.
C27_SuccessLeavesErrorFieldsEmpty ==
  /\ (Traced /\ acted.event = "poll" /\ acted.op \in FutureSpanned
        /\ delivered.tag \in {"Ok", "Unit"}) =>
       (OwnSpan # NoSpan /\ NoErrorRecorded(OwnSpan))
  /\ (acted.event = "poll" /\ acted.op \in StreamOps
        /\ delivered.tag \in {"Ok", "End"}) =>
       NoErrorRecorded(ops[acted.slot].span)
  /\ (acted.op = "try_acquire" /\ delivered.tag = "Some") => NoErrorRecorded(closed)
  /\ (created = 1 /\ driverOut.tag # "Err") =>
       (OwnSpan # NoSpan /\ NothingRecorded(OwnSpan))

\* a fetch_one that succeeded on a PoolConnection after an earlier failure in
\* the same run: its span closed without any error field
C27_Witness ==
  /\ acted = Act("fetch_one", "PoolConnection", "poll", acted.slot)
  /\ delivered.tag = "Ok"
  /\ OwnSpan.name = "sqlx.fetch_one"
  /\ NoErrorRecorded(OwnSpan)
  /\ ambient.fields["otel.status_code"] = V("error")

\* a new call's span, made after an earlier operation failed
FreshSpanAfterFailureWitness ==
  /\ created = 1 /\ acted.event = "call" /\ acted.op \in ExecutorOps
  /\ NothingRecorded(ops[acted.slot].span)
  /\ ambient.fields["otel.status_code"] = V("error")

\* error.type as the spec classifies the variant of an error
ClassOf(e) == IF e.kind \in ClientVariants THEN "client" ELSE "server"

\* C28: when fetch_all, fetch_one or fetch_optional hands its caller an error,
\* the span it closes with has db.response.returned_rows empty, and
\* otel.status_code = "error" and error.type set; fetch_one failing with
\* RowNotFound has error.type = "client" and no returned_rows value.
C28_RowCountOnlyOnSuccess ==
  (Traced /\ acted.event = "poll" /\ acted.op \in {"fetch_all", "fetch_one", "fetch_optional"}
     /\ delivered.tag = "Err") =>
    /\ OwnSpan.name \in RowCountingSpans
    /\ OwnSpan.fields["db.response.returned_rows"] = Empty
    /\ OwnSpan.fields["otel.status_code"] = V("error")
    /\ OwnSpan.fields["error.type"] = V(ClassOf(delivered))
    /\ (acted.op = "fetch_one" /\ delivered.kind = "RowNotFound") =>
         OwnSpan.fields["error.type"] = V("client")

\* fetch_one on a query that matched no row
C28_Witness ==
  /\ acted.op = "fetch_one" /\ acted.event = "poll"
  /\ delivered = Err("RowNotFound", "p1")
  /\ OwnSpan.name = "sqlx.fetch_one"
  /\ OwnSpan.fields["error.type"] = V("client")
  /\ OwnSpan.fields["db.response.returned_rows"] = Empty

\* a fetch_all refused by the server
FetchAllServerErrorWitness ==
  /\ acted.op = "fetch_all" /\ acted.event = "poll"
  /\ delivered.tag = "Err" /\ delivered.kind = "Database"
  /\ OwnSpan.fields["error.type"] = V("server")
  /\ OwnSpan.fields["db.response.returned_rows"] = Empty

\* C29: an executor call on any carrier creates exactly one span, the one
\* named after the operation, and the polls of that call create none: a query
\* issued on the Pool, whose driver call checks a connection out of the driver
\* pool, creates no sqlx.pool.acquire span for it. Transaction::executor
\* creates no span and touches none.
C29_OneSpanPerCall ==
  [][/\ \A i \in Slots :
          /\ (acted' = Act(ops'[i].op, ops'[i].kind, "call", i) /\ OnSurface(ops'[i])) =>
               /\ created' = 1
               /\ ops'[i].span.name = ExpectedName(ops'[i].op)
               /\ closed' = NoSpan
               /\ \A j \in Slots \ {i} : ops'[j] = ops[j]
          /\ (acted' = Act(ops[i].op, ops[i].kind, "poll", i) /\ OnSurface(ops[i])) =>
               /\ created' = 0
               /\ closed' # NoSpan => closed'.name = ExpectedName(ops[i].op)
               /\ ops'[i].span # NoSpan => ops'[i].span.name = ExpectedName(ops[i].op)
               /\ \A j \in Slots \ {i} : ops'[j] = ops[j]
     /\ acted' = Act("executor", "Transaction", "call", 0) =>
          /\ created' = 0 /\ closed' = NoSpan
          /\ ops' = ops /\ ambient' = ambient]_vars

\* a fetch_all on the Pool has just had a connection checked out for it by the
\* driver pool: the only span is its own
C29_Witness ==
  /\ acted = Act("fetch_all", "Pool", "poll", acted.slot)
  /\ driverOut.tag = "Pending"
  /\ ops[acted.slot].conn # 0
  /\ ops[acted.slot].conn \notin inner.idle
  /\ created = 0
  /\ \A s \in AllSpans : s.name = "sqlx.fetch_all"

\* a Connection borrowed from a Transaction, no span made for the borrow
ExecutorBorrowWitness ==
  /\ acted = Act("executor", "Transaction", "call", 0)
  /\ created = 0
  /\ \E h \in HandleIds : handles[h].kind = "Connection"

\* a PoolConnection is used again although the Transaction begun on it was
\* passed as an executor and never ended: it is pinged, queried, begun on again
\* and dropped once the future of that one call is gone
AbandonedTransactionOn(c) ==
  \E g \in HandleIds :
    handles[g].kind = "Transaction" /\ handles[g].parent = c /\ Abandoned(g)
PingAfterAbandonedTransactionWitness ==
  /\ acted = Act("ping", "PoolConnection", "call", acted.slot)
  /\ AbandonedTransactionOn(ops[acted.slot].carrier)
QueryAfterAbandonedTransactionWitness ==
  /\ acted = Act("execute", "PoolConnection", "call", acted.slot)
  /\ AbandonedTransactionOn(ops[acted.slot].carrier)
BeginAfterAbandonedTransactionWitness ==
  /\ acted = Act("conn_begin", "PoolConnection", "poll", acted.slot)
  /\ delivered.tag = "Ok"
  /\ \E c \in HandleIds :
       /\ AbandonedTransactionOn(c)
       /\ handles[delivered.n].kind = "Transaction" /\ handles[delivered.n].parent = c
DropAfterAbandonedTransactionWitness ==
  /\ acted = Act("drop", "PoolConnection", "drop", 0)
  /\ \E g \in HandleIds :
       /\ handles[g].kind = "Transaction" /\ handles[g].spent
       /\ handles[g].parent # 0 /\ handles[handles[g].parent].kind = ""
       /\ handles[g].inner \in inner.idle

\* both toggles off
Redacted == Built /\ ~Attrs.record_query_text /\ ~Attrs.record_error_details

\* the driver answers a second run may see in place of res: the same variant
\* and the same row count, any message and payload
Twins(res) ==
  IF res.tag = "Err" THEN { Err(res.kind, p) : p \in PayloadsOf(res.kind) } ELSE {res}

\* the spans a poll of operation o leaves when the driver answers res
Replay(o, res) ==
  IF o.shape = "stream"
    THEN PollStream(Ctx(o.span, ambient), res, o.record_details).ctx
  ELSE IF o.shape = "future"
    THEN PollInstrumented(Ctx(o.span, ambient), res, o.onOk, o.record_details).ctx
  ELSE LET w == LifecycleOf(o.op, arcs[CarrierAttributes(o.carrier)], backend)
       IN  PollInstrumented(Ctx(IF o.phase = "new" THEN w.span ELSE o.span, ambient),
                            res, "nothing", w.record_details).ctx

\* C30: with record_query_text and record_error_details both false, the spans
\* do not depend on the SQL text or on the message or payload of an error: a
\* call made with any other SQL text creates the same span, field for field,
\* and a poll answered with any error of the same variant but another payload
\* leaves the operation's span and the caller's span the same, field for
\* field. Two runs of the same operations that differ only in these start
\* with equal spans and keep them equal step by step.
C30_RedactedSpansIgnoreSecrets ==
  [][Redacted =>
       \A i \in Slots :
         /\ (acted' = Act(ops'[i].op, ops'[i].kind, "call", i) /\ OnSurface(ops'[i])) =>
              \A sql2 \in SqlTexts :
                ExecutorOf(ops'[i].kind, ops'[i].op, sql2,
                           arcs[CarrierAttributes(ops'[i].carrier)], backend).span
                  = ops'[i].span
         /\ (acted' = Act(ops[i].op, ops[i].kind, "poll", i) /\ SpanOwning(ops[i])) =>
              \A r2 \in Twins(driverOut') :
                /\ Replay(ops[i], r2).own = HeldAfter(i, closed', ops')
                /\ Replay(ops[i], r2).ambient = ambient']_vars

\* a redacted pool whose execute of one statement failed with one message:
\* the span of the call holds the class of the error and neither secret
C30_Witness ==
  /\ Redacted
  /\ acted.op = "execute" /\ acted.event = "poll"
  /\ delivered = Err("Database", "p2")
  /\ OwnSpan.fields["error.type"] = V("server")
  /\ OwnSpan.fields["error.message"] = Empty
  /\ OwnSpan.fields["db.query.text"] = Empty

\* the same pool with a stream's error recorded on the caller's span: no
\* secret there either
RedactedStreamErrorWitness ==
  /\ Redacted
  /\ acted.op = "fetch" /\ acted.event = "poll"
  /\ delivered = Err("Database", "p1")
  /\ ambient.fields["otel.status_code"] = V("error")

====
